---- MODULE Spec2Model ----
(***************************************************************************)
(* Transport/session layer of the Unity MCP server (unity_connection.py    *)
(* of the ava-asset-store-compliance worktree): the shared UnityConnection *)
(* (connect, handshake, send_command with its retry loop), the module-wide *)
(* get_unity_connection and send_command_with_retry.  Caller threads are   *)
(* interleaved at every read or write of shared state.                     *)
(* Further machines: the framed and the legacy receive, port discovery and *)
(* its probe, the backoff of the retry loop, the main module's connection  *)
(* manager, and the milestone recording of the telemetry collector.        *)
(***************************************************************************)
EXTENDS Integers, Sequences, FiniteSets, TLC

\* ---------------------------------------------------------------- bounds
MaxSessions == 2        \* UnityConnection objects ever constructed
MaxSockets == 2         \* socket objects alive at the same time
MaxReloadRetries == 2   \* largest max_retries a caller passes to send_command_with_retry
Calls == 2              \* top-level calls of the single caller of Spec
CallsConc == 1          \* top-level calls of each caller of SpecConc
FaultsConc == 1         \* failures the peer and the files inject in a run of SpecConc
CallsAsync == 1         \* calls of async_send_command_with_retry by the caller of SpecAsync
CallsMgr == 2           \* calls of get_unity_connection by each caller
FaultsMgr == 1          \* failures of the environment during those calls
CallsHeal == 2          \* calls of send_command_with_retry by the caller of SpecHeal
FaultsHeal == 2         \* failures before the peer is healthy, fewer than the attempts of a call

MaxHeartbeats == 17     \* zero-length frames the peer sends ahead of its reply
MaxHashed == 2          \* per-project registry files in ~/.unity-mcp
MaxMtime == 2           \* distinct modification times of those files

\* ------------------------------------------------------ program constants
MinAttempts == 5
FRAMED_MAX == 67108864
max_heartbeat_frames == 16
reload_retry_ms == 250
DEFAULT_PORT == 6400
ProbeRecvSize == 512
JitterMin == 100        \* random.uniform(0.1, 0.3), in milliseconds
JitterMax == 300
FastCap == 250          \* the caps of the backoff sleep, in milliseconds
ReloadCap == 800
SlowCap == 3000

None == 0
NoHint == -1
Threads == {1, 2}
Sessions == 1..MaxSessions
Socks == 1..MaxSockets
Ports == {DEFAULT_PORT, DEFAULT_PORT + 1}
MaxRetriesValues == {3, 6}          \* config.max_retries, below and above the floor
Hints == {NoHint, 100}              \* retry_after_ms of a reloading reply (NoHint: absent)
CommandTypes == {"", "ping", "cmd"}
ParamValues == {"None", "dict"}
Greetings == {"framing", "plain", "empty"}

VARIABLES
    unity_connection,   \* _unity_connection: None or a session
    connection_lock,    \* _connection_lock: None or the thread holding it
    nextSession,        \* next UnityConnection object
    port, sock, use_framing, io_lock, conn_lock,   \* fields of each UnityConnection
    sockets,            \* the socket objects
    reloading,          \* 'reloading' of the latest status file
    require_framing,    \* config.require_framing
    config_max_retries, \* config.max_retries
    callers,            \* the caller threads of this run
    inputs,             \* the arguments the callers of this run draw from
    faults,             \* injected failures still allowed, where inputs.limited
    budget,             \* top-level calls each caller may still start
    th,                 \* per caller: position and locals
    rx,                 \* one call of receive_full_response in framed mode
    pd,                 \* calls of PortDiscovery.discover_unity_port
    pb,                 \* one call of PortDiscovery._try_probe_unity_mcp
    bo,                 \* the attempts of one send_command and the backoff sleeps between them
    tm,                 \* the telemetry collector: its lock, its milestones, its callers
    mg,                 \* get_unity_connection and send_command of the main connection module
    lr                  \* one call of receive_full_response in legacy mode

vars == <<unity_connection, connection_lock, nextSession, port, sock, use_framing,
          io_lock, conn_lock, sockets, reloading, require_framing,
          config_max_retries, callers, inputs, faults, budget, th, rx, pd, pb,
          bo, tm, mg, lr>>

\* the state of the connection module
connVars == <<unity_connection, connection_lock, nextSession, port, sock, use_framing,
              io_lock, conn_lock, sockets, reloading, require_framing,
              config_max_retries, callers, inputs, faults, budget, th>>

sessionVars == <<port, sock, use_framing, io_lock, conn_lock>>
managerVars == <<unity_connection, connection_lock, nextSession>>
envVars == <<reloading, require_framing, config_max_retries, callers, inputs>>

\* ------------------------------------------------------------ values
Val(tag) == [tag |-> tag, state |-> "none", hint |-> NoHint, msg_reload |-> FALSE, att |-> 0]
Exc(tag, att) == [Val(tag) EXCEPT !.att = att]
NoVal == Val("none")

\* the dict send_command returns from its preflight
PreflightResponse ==
    [tag |-> "dict", state |-> "reloading", hint |-> reload_retry_ms, msg_reload |-> TRUE, att |-> 0]

\* the dict send_command returns when params is None
NoParamsResponse == Val("no_params")

ClosedSocket == [st |-> "closed", port |-> None, hs |-> "pending", wire |-> <<>>, adv |-> FALSE]

FreshThread ==
    [pc |-> "idle", op |-> "none", conn |-> None, from |-> "top",
     command_type |-> "cmd", params |-> "dict", max_retries |-> 0, retries |-> 0,
     delay_ms |-> 0, attempt |-> 0, exc |-> NoVal, ret |-> FALSE, hs_ok |-> FALSE,
     response |-> NoVal, out |-> "none",
     wsock |-> None,      \* the socket the command in flight was written on
     \* history of the current top-level call
     io |-> {},           \* kinds of I/O done: "probe", "connect", "write"
     sends |-> 0,         \* commands written, counted while clean
     clean |-> TRUE,      \* every send_command so far was one send answered by a result
     gotFrom |-> None,    \* whose request the reply just read answers
     resolved |-> None,   \* port the failure handler has just discovered
     greeting |-> "none", \* the greeting line the last connect() of the call read
     reused |-> FALSE,    \* get_unity_connection returned the stored session
     reloadAll |-> FALSE] \* the status file said reloading during the whole call

Upd(r, u) == [f \in DOMAIN r |-> IF f \in DOMAIN u THEN u[f] ELSE r[f]]

Merge(a, b) == [f \in DOMAIN a \cup DOMAIN b |-> IF f \in DOMAIN b THEN b[f] ELSE a[f]]

\* receive_full_response and discover_unity_port before any call
RxIdle == [pc |-> "idle"]

PdIdle == [pc |-> "idle"]

PbIdle == [pc |-> "idle"]

\* the backoff, telemetry, main-module and legacy-receive machines before their first step
Idle == [pc |-> "idle"]

\* the history fields of a call are kept in the runs that ask for them
Hist(u) == IF inputs.history THEN u ELSE <<>>

\* the locals of a finished call are dropped where no history is kept
Done(t, u) ==
    IF inputs.history THEN u
    ELSE [FreshThread EXCEPT !.out = u.out, !.op = th[t].op, !.conn = th[t].conn]

Set(t, u) == th' = [th EXCEPT ![t] = Upd(@, u)]

InitCommon ==
    /\ unity_connection = None
    /\ connection_lock = None
    /\ nextSession = 1
    /\ port = [s \in Sessions |-> None]
    /\ sock = [s \in Sessions |-> None]
    /\ use_framing = [s \in Sessions |-> FALSE]
    /\ io_lock = [s \in Sessions |-> None]
    /\ conn_lock = [s \in Sessions |-> None]
    /\ sockets = [k \in Socks |-> ClosedSocket]
    /\ reloading \in BOOLEAN
    /\ require_framing \in BOOLEAN
    /\ th = [t \in Threads |-> FreshThread]
    /\ rx = RxIdle
    /\ pd = PdIdle
    /\ pb = PbIdle
    /\ bo = Idle
    /\ tm = Idle
    /\ mg = Idle
    /\ lr = Idle

\* one caller, every public operation, every argument
Init ==
    /\ InitCommon
    /\ config_max_retries \in MaxRetriesValues
    /\ callers = {1}
    /\ inputs = [types |-> CommandTypes, params |-> ParamValues, retries |-> 0..MaxReloadRetries,
                 ports |-> Ports, history |-> TRUE, limited |-> FALSE]
    /\ faults = 0
    /\ budget = [t \in Threads |-> IF t = 1 THEN Calls ELSE 0]

\* two callers of send_command_with_retry at the same time
InitConc ==
    /\ InitCommon
    /\ config_max_retries = 3
    /\ callers = Threads
    /\ inputs = [types |-> {"cmd"}, params |-> {"dict"}, retries |-> {0},
                 ports |-> {DEFAULT_PORT}, history |-> FALSE, limited |-> TRUE]
    /\ faults = FaultsConc
    /\ budget = [t \in Threads |-> CallsConc]


\* ------------------------------------------------------------ helpers
Allocated == 1..(nextSession - 1)

\* variant: one attempt more than the ceiling
AttemptsOffByOne(cfg) == (IF cfg > MinAttempts THEN cfg ELSE MinAttempts) + 1

\* variant: no attempt after the first
SingleAttempt(cfg) == 0

\* attempts = max(config.max_retries, 5)
Attempts(cfg) == IF cfg > MinAttempts THEN cfg ELSE MinAttempts

\* variant: a greeting without the marker is silently taken as legacy mode
HandshakeDowngrade(greeting, require) == IF greeting = "framing" THEN "framed" ELSE "legacy"

\* the three ways connect() leaves the handshake, decided by the greeting line
Handshake(greeting, require) ==
    IF greeting = "framing" THEN "framed"
    ELSE IF require THEN "reject" ELSE "legacy"

\* variant: nothing is written when the greeting is rejected
NoAdvisory == FALSE

\* connect() writes b'Unity MCP requires FRAMING=1\n' on the socket when it rejects the greeting
AdvisoryOnReject == TRUE

\* _is_reloading_response
IsReloadingResponse(resp) ==
    \/ resp.state = "reloading"
    \/ resp.msg_reload

\* variant: the hint of the peer is ignored
IgnoreHintDelay(resp, retry_ms) == retry_ms

\* delay_ms = int(response.get("retry_after_ms", retry_ms))
ReloadDelay(resp, retry_ms) == IF resp.hint # NoHint THEN resp.hint ELSE retry_ms

\* variant: no preflight
PreflightNever(status) == FALSE

\* preflight test of send_command on the latest status file
PreflightReloading(status) == status

\* what receive_full_response hands to the parse step for one request: a
\* reply of the peer (a result whose message text may hold the word "reload"),
\* or the empty response after heartbeat frames only (kind "empty", framed mode)
Replies ==
    {[kind |-> k, state |-> "none", hint |-> NoHint, msg_reload |-> FALSE] :
        k \in {"success", "error", "pong", "garbage", "empty"}}
    \cup {[kind |-> "success", state |-> "reloading", hint |-> h, msg_reload |-> FALSE] : h \in Hints}
    \cup {[kind |-> "success", state |-> "none", hint |-> NoHint, msg_reload |-> TRUE]}

\* the parse step of send_command: <<"return", value>> or <<"raise", exception>>
Parse(command_type, reply, attempt) ==
    IF reply.kind = "empty" THEN <<"raise", Exc("JSONDecodeError on b''", attempt)>>
    ELSE IF reply.kind = "garbage" THEN <<"raise", Exc("JSONDecodeError", attempt)>>
    ELSE IF command_type = "ping"
         THEN IF reply.kind = "pong" THEN <<"return", Val("pong")>>
              ELSE <<"raise", Exc("PingUnsuccessful", attempt)>>
         ELSE IF reply.kind = "error" THEN <<"raise", Exc("UnityError", attempt)>>
              ELSE <<"return", [tag |-> "result", state |-> reply.state, hint |-> reply.hint,
                               msg_reload |-> reply.msg_reload, att |-> 0]>>

CloseSocket(k) == [sockets EXCEPT ![k] = ClosedSocket]

\* socket objects no longer referenced: closed and held by no session
FreeSocks == {k \in Socks : sockets[k].st = "closed" /\ \A s \in Sessions : sock[s] # k}

NewSock == CHOOSE k \in FreeSocks : \A j \in FreeSocks : k <= j

Usable(k) == k # None /\ sockets[k].st = "open"

\* results of discover_unity_port as seen by this layer: a port, or None when it raises
DiscoverOutcomes == inputs.ports \cup {None}

\* ------------------------------------------------- returning to the caller
ConnectReturn(t, r) ==
    IF th[t].from = "top" THEN Done(t, [pc |-> "idle", out |-> "return", ret |-> r, hs_ok |-> FALSE])
    ELSE IF th[t].from = "get" THEN [pc |-> "g_after", ret |-> r, hs_ok |-> FALSE, from |-> "top"]
    ELSE IF r THEN [pc |-> "s_lock", hs_ok |-> FALSE, from |-> "top"]
    ELSE [pc |-> "h_close", hs_ok |-> FALSE, from |-> "top",
          exc |-> Exc("CouldNotConnect", th[t].attempt)]

SendReturn(t, v) ==
    IF th[t].op \in {"swr", "async"} THEN [pc |-> "w_loop", response |-> v]
    ELSE Done(t, [pc |-> "idle", out |-> "return", response |-> v])

\* the dict async_send_command_with_retry returns from its except clause
HelperFailed == Val("helper_failed")

\* variant: the exception leaves the async wrapper
AsyncReraise(e) == [out |-> "raise", response |-> e, exc |-> NoVal]

\* except Exception as e: return {"success": False, "error": ...}
AsyncExcept(e) == [out |-> "return", response |-> HelperFailed, exc |-> e]

\* an exception leaves the call: to the caller, or to the except clause of
\* async_send_command_with_retry
SendRaise(t, e) ==
    Done(t, Merge([pc |-> "idle"],
                  IF th[t].op = "async" THEN AsyncExcept(e)
                  ELSE [out |-> "raise", response |-> e, exc |-> NoVal]))

\* return s from get_unity_connection: to its caller send_command_with_retry,
\* or out of a direct call
GetReturn(t, s) ==
    IF th[t].op = "get" THEN [pc |-> "idle", out |-> "return", conn |-> s]
    ELSE [pc |-> "s_guard", conn |-> s]

\* ------------------------------------------------------ top-level calls
NewCall(op, s) == [FreshThread EXCEPT !.op = op, !.conn = s]

\* one more failure may be injected
CanFail == ~inputs.limited \/ faults > 0

Spend == faults' = IF inputs.limited THEN faults - 1 ELSE faults

CanStart(t) == t \in callers /\ th[t].pc = "idle" /\ budget[t] > 0

\* UnityConnection(host, port=p)
Construct(t) ==
    /\ UNCHANGED <<rx, pd, pb, bo, tm, mg, lr>>
    /\ UNCHANGED faults
    /\ CanStart(t)
    /\ nextSession <= MaxSessions
    /\ \E p \in Ports : port' = [port EXCEPT ![nextSession] = p]
    /\ nextSession' = nextSession + 1
    /\ budget' = [budget EXCEPT ![t] = @ - 1]
    /\ Set(t, Merge(NewCall("new", nextSession), [out |-> "return"]))
    /\ UNCHANGED <<unity_connection, connection_lock, sock, use_framing, io_lock, conn_lock,
                   sockets, envVars>>

CallConnect(t) ==
    /\ UNCHANGED <<rx, pd, pb, bo, tm, mg, lr>>
    /\ UNCHANGED faults
    /\ CanStart(t)
    /\ \E s \in Allocated : Set(t, Merge(NewCall("connect", s), [pc |-> "c_fast"]))
    /\ budget' = [budget EXCEPT ![t] = @ - 1]
    /\ UNCHANGED <<managerVars, sessionVars, sockets, envVars>>

CallSend(t) ==
    /\ UNCHANGED <<rx, pd, pb, bo, tm, mg, lr>>
    /\ UNCHANGED faults
    /\ CanStart(t)
    /\ \E s \in Allocated, c \in CommandTypes, p \in ParamValues :
          Set(t, Merge(NewCall("send", s), [pc |-> "s_guard", command_type |-> c, params |-> p]))
    /\ budget' = [budget EXCEPT ![t] = @ - 1]
    /\ UNCHANGED <<managerVars, sessionVars, sockets, envVars>>

CallSendWithRetry(t) ==
    /\ UNCHANGED <<rx, pd, pb, bo, tm, mg, lr>>
    /\ UNCHANGED faults
    /\ CanStart(t)
    /\ \E c \in inputs.types, p \in inputs.params, m \in inputs.retries :
          Set(t, Merge(NewCall("swr", None),
                     Merge([pc |-> "g_fast", command_type |-> c, params |-> p, max_retries |-> m],
                           Hist([reloadAll |-> reloading]))))
    /\ budget' = [budget EXCEPT ![t] = @ - 1]
    /\ UNCHANGED <<managerVars, sessionVars, sockets, envVars>>

\* await async_send_command_with_retry(...): asyncio.get_running_loop() raises
\* RuntimeError where no loop runs, else the blocking helper runs in the executor
CallAsync(t) ==
    /\ UNCHANGED <<rx, pd, pb, bo, tm, mg, lr>>
    /\ UNCHANGED faults
    /\ CanStart(t)
    /\ \E c \in inputs.types, p \in inputs.params, m \in inputs.retries,
          loop \in {"given", "running", "missing"} :
          IF loop = "missing"
          THEN Set(t, Merge(NewCall("async", None),
                            Merge([pc |-> "idle", command_type |-> c, params |-> p],
                                  AsyncExcept(Exc("RuntimeError", 0)))))
          ELSE Set(t, Merge(NewCall("async", None),
                     Merge([pc |-> "g_fast", command_type |-> c, params |-> p, max_retries |-> m],
                           Hist([reloadAll |-> reloading]))))
    /\ budget' = [budget EXCEPT ![t] = @ - 1]
    /\ UNCHANGED <<managerVars, sessionVars, sockets, envVars>>

\* a direct call of get_unity_connection()
CallGet(t) ==
    /\ UNCHANGED <<rx, pd, pb, bo, tm, mg, lr>>
    /\ UNCHANGED faults
    /\ CanStart(t)
    /\ Set(t, Merge(NewCall("get", None), [pc |-> "g_fast"]))
    /\ budget' = [budget EXCEPT ![t] = @ - 1]
    /\ UNCHANGED <<managerVars, sessionVars, sockets, envVars>>

\* ------------------------------------------------ UnityConnection.connect
\* variant: connect() drops the socket it has and connects again
ConnectAlways(t) ==
    /\ UNCHANGED <<rx, pd, pb, bo, tm, mg, lr>>
    /\ UNCHANGED faults
    /\ th[t].pc = "c_fast"
    /\ LET k == sock[th[t].conn] IN
         sockets' = IF k # None THEN CloseSocket(k) ELSE sockets
    /\ sock' = [sock EXCEPT ![th[t].conn] = None]
    /\ Set(t, [pc |-> "c_lock"])
    /\ UNCHANGED <<managerVars, port, use_framing, io_lock, conn_lock, envVars, budget>>

\* if self.sock: return True
ConnectFast(t) ==
    /\ UNCHANGED <<rx, pd, pb, bo, tm, mg, lr>>
    /\ UNCHANGED faults
    /\ th[t].pc = "c_fast"
    /\ LET s == th[t].conn IN
         IF sock[s] # None THEN Set(t, ConnectReturn(t, TRUE))
         ELSE Set(t, [pc |-> "c_lock"])
    /\ UNCHANGED <<managerVars, sessionVars, sockets, envVars, budget>>

\* with self._conn_lock:
ConnectLock(t) ==
    /\ UNCHANGED <<rx, pd, pb, bo, tm, mg, lr>>
    /\ UNCHANGED faults
    /\ th[t].pc = "c_lock"
    /\ conn_lock[th[t].conn] = None
    /\ conn_lock' = [conn_lock EXCEPT ![th[t].conn] = t]
    /\ Set(t, [pc |-> "c_check"])
    /\ UNCHANGED <<managerVars, port, sock, use_framing, io_lock, sockets, envVars, budget>>

\* second test of self.sock, then socket.create_connection: refused, or
\* self.sock is assigned the new socket before the handshake
ConnectOpen(t) ==
    /\ UNCHANGED <<rx, pd, pb, bo, tm, mg, lr>>
    /\ th[t].pc = "c_check"
    /\ LET s == th[t].conn IN
         IF sock[s] # None
         THEN /\ conn_lock' = [conn_lock EXCEPT ![s] = None]
              /\ Set(t, ConnectReturn(t, TRUE))
              /\ UNCHANGED <<sock, sockets, faults>>
         ELSE \/ /\ CanFail /\ Spend
                 /\ conn_lock' = [conn_lock EXCEPT ![s] = None]
                 /\ Set(t, Merge(ConnectReturn(t, FALSE), Hist([io |-> th[t].io \cup {"connect"}])))
                 /\ UNCHANGED <<sock, sockets>>
              \/ /\ FreeSocks # {}
                 /\ UNCHANGED faults
                 /\ sockets' = [sockets EXCEPT ![NewSock] =
                                   [ClosedSocket EXCEPT !.st = "open", !.port = port[s]]]
                 /\ sock' = [sock EXCEPT ![s] = NewSock]
                 /\ Set(t, Merge([pc |-> "c_hs"], Hist([io |-> th[t].io \cup {"connect"}])))
                 /\ UNCHANGED conn_lock
    /\ UNCHANGED <<managerVars, port, use_framing, io_lock, envVars, budget>>

\* the handshake: read the greeting line on self.sock and decide the mode
ConnectHandshake(t) ==
    /\ UNCHANGED <<rx, pd, pb, bo, tm, mg, lr>>
    /\ th[t].pc = "c_hs"
    /\ LET s == th[t].conn
           k == sock[s] IN
         IF ~Usable(k)
         THEN /\ Set(t, [pc |-> "c_fin", hs_ok |-> FALSE])
              /\ UNCHANGED <<use_framing, sockets, faults>>
         ELSE \/ \* recv raises (reset by peer)
                 /\ CanFail /\ Spend
                 /\ Set(t, Merge([pc |-> "c_fin", hs_ok |-> FALSE], Hist([greeting |-> "reset"])))
                 /\ UNCHANGED <<use_framing, sockets>>
              \/ \E g \in Greetings :
                   LET h == Handshake(g, require_framing) IN
                     IF h = "reject"
                     THEN /\ CanFail /\ Spend
                          /\ sockets' = [sockets EXCEPT ![k].adv = AdvisoryOnReject]
                          /\ Set(t, Merge([pc |-> "c_fin", hs_ok |-> FALSE], Hist([greeting |-> g])))
                          /\ UNCHANGED use_framing
                     ELSE /\ use_framing' = [use_framing EXCEPT ![s] = (h = "framed")]
                          /\ sockets' = [sockets EXCEPT ![k].hs = "done"]
                          /\ Set(t, Merge([pc |-> "c_fin", hs_ok |-> TRUE], Hist([greeting |-> g])))
                          /\ UNCHANGED faults
    /\ UNCHANGED <<managerVars, port, sock, io_lock, conn_lock, envVars, budget>>

\* finally: self.sock.settimeout(...); return True, or the except branch:
\* close self.sock if set, self.sock = None, return False
ConnectFinish(t) ==
    /\ UNCHANGED <<rx, pd, pb, bo, tm, mg, lr>>
    /\ UNCHANGED faults
    /\ th[t].pc = "c_fin"
    /\ LET s == th[t].conn
           k == sock[s] IN
         IF th[t].hs_ok /\ Usable(k)
         THEN /\ Set(t, ConnectReturn(t, TRUE))
              /\ UNCHANGED <<sock, sockets>>
         ELSE /\ sockets' = IF k # None THEN CloseSocket(k) ELSE sockets
              /\ sock' = [sock EXCEPT ![s] = None]
              /\ Set(t, ConnectReturn(t, FALSE))
    /\ conn_lock' = [conn_lock EXCEPT ![th[t].conn] = None]
    /\ UNCHANGED <<managerVars, port, use_framing, io_lock, envVars, budget>>

\* --------------------------------------------- UnityConnection.send_command
\* the guards on command_type and params, then the preflight on the status file
SendGuard(t) ==
    /\ UNCHANGED <<rx, pd, pb, bo, tm, mg, lr>>
    /\ UNCHANGED faults
    /\ th[t].pc = "s_guard"
    /\ LET c == [delay_ms |-> 0, gotFrom |-> None]
           d == Merge([delay_ms |-> 0, gotFrom |-> None], Hist([sends |-> 0, clean |-> FALSE])) IN
         IF th[t].command_type = "" THEN Set(t, Merge(SendRaise(t, Exc("ValueError", 0)), d))
         ELSE IF th[t].params = "None" THEN Set(t, Merge(SendReturn(t, NoParamsResponse), d))
         ELSE IF PreflightReloading(reloading) THEN Set(t, Merge(SendReturn(t, PreflightResponse), d))
         ELSE Set(t, Merge([pc |-> "s_try", attempt |-> 0, exc |-> NoVal, response |-> NoVal], c))
    /\ UNCHANGED <<managerVars, sessionVars, sockets, envVars, budget>>

\* if not self.sock and not self.connect(): raise
SendTry(t) ==
    /\ UNCHANGED <<rx, pd, pb, bo, tm, mg, lr>>
    /\ UNCHANGED faults
    /\ th[t].pc = "s_try"
    /\ IF sock[th[t].conn] # None THEN Set(t, [pc |-> "s_lock"])
       ELSE Set(t, [pc |-> "c_fast", from |-> "send"])
    /\ UNCHANGED <<managerVars, sessionVars, sockets, envVars, budget>>

\* with self._io_lock:
SendLock(t) ==
    /\ UNCHANGED <<rx, pd, pb, bo, tm, mg, lr>>
    /\ UNCHANGED faults
    /\ th[t].pc = "s_lock"
    /\ io_lock[th[t].conn] = None
    /\ io_lock' = [io_lock EXCEPT ![th[t].conn] = t]
    /\ Set(t, [pc |-> "s_send", greeting |-> "none", resolved |-> None])
    /\ UNCHANGED <<managerVars, port, sock, use_framing, conn_lock, sockets, envVars, budget>>

\* self.sock.sendall(...) of the header and payload, or of the bare payload
SendWrite(t) ==
    /\ UNCHANGED <<rx, pd, pb, bo, tm, mg, lr>>
    /\ th[t].pc = "s_send"
    /\ LET s == th[t].conn
           k == sock[s] IN
         \/ /\ Usable(k)
            /\ sockets' = [sockets EXCEPT ![k].wire = Append(@, t)]
            /\ Set(t, Merge([pc |-> "s_recv", wsock |-> k],
                            Hist([io |-> th[t].io \cup {"write"},
                                  sends |-> IF th[t].clean THEN th[t].sends + 1 ELSE 0])))
            /\ UNCHANGED <<io_lock, faults>>
         \/ \* self.sock is None or closed, or the peer has gone: sendall raises
            /\ IF Usable(k) THEN CanFail /\ Spend ELSE UNCHANGED faults
            /\ Set(t, [pc |-> "h_close", exc |-> Exc("SendFailed", th[t].attempt)])
            /\ io_lock' = [io_lock EXCEPT ![s] = None]
            /\ UNCHANGED sockets
    /\ UNCHANGED <<managerVars, port, sock, use_framing, conn_lock, envVars, budget>>

\* self.receive_full_response(self.sock), the end of the with block, and the parse
SendReceive(t) ==
    /\ UNCHANGED <<rx, pd, pb, bo, tm, mg, lr>>
    /\ th[t].pc = "s_recv"
    /\ LET s == th[t].conn
           k == sock[s] IN
         \/ \* no reply in time, peer closed or self.sock unusable, or (framed
            \* mode) a header above FRAMED_MAX: receive_full_response raises
            /\ \E e \in {"Timeout", "RecvFailed", "InvalidFrame"} :
                 /\ (e = "Timeout") => Usable(k)
                 /\ (e = "InvalidFrame") => Usable(k) /\ use_framing[s]
                 /\ Set(t, [pc |-> "h_close", exc |-> Exc(e, th[t].attempt), wsock |-> None])
            /\ IF Usable(k) THEN CanFail /\ Spend ELSE UNCHANGED faults
            /\ UNCHANGED sockets
         \/ \* the next reply on the stream is read
            /\ Usable(k)
            /\ sockets[k].wire # <<>>
            /\ sockets' = [sockets EXCEPT ![k].wire = Tail(@)]
            /\ \E reply \in Replies :
                 LET r == Parse(th[t].command_type, reply, th[t].attempt)
                     g == [gotFrom |-> Head(sockets[k].wire), wsock |-> None] IN
                   /\ (reply.kind = "empty") => use_framing[s]
                   /\ IF r[1] = "return"
                      THEN Set(t, Merge(SendReturn(t, r[2]), g)) /\ UNCHANGED faults
                      ELSE Set(t, Merge([pc |-> "h_close", exc |-> r[2]], g)) /\ CanFail /\ Spend
    /\ io_lock' = [io_lock EXCEPT ![th[t].conn] = None]
    /\ UNCHANGED <<managerVars, port, sock, use_framing, conn_lock, envVars, budget>>

\* except Exception: if self.sock: self.sock.close()
HandlerClose(t) ==
    /\ UNCHANGED <<rx, pd, pb, bo, tm, mg, lr>>
    /\ UNCHANGED faults
    /\ th[t].pc = "h_close"
    /\ LET k == sock[th[t].conn] IN
         sockets' = IF k # None THEN CloseSocket(k) ELSE sockets
    /\ Set(t, Merge([pc |-> "h_clear", gotFrom |-> None, greeting |-> "none", resolved |-> None],
                     Hist([sends |-> 0, clean |-> FALSE])))
    /\ UNCHANGED <<managerVars, sessionVars, envVars, budget>>

\* variant: the handle is kept
HandlerKeepHandle(t) ==
    /\ UNCHANGED <<rx, pd, pb, bo, tm, mg, lr>>
    /\ th[t].pc = "h_clear"
    /\ Set(t, [pc |-> "h_port"])
    /\ UNCHANGED <<managerVars, sessionVars, sockets, envVars, budget, faults>>

\* finally: self.sock = None
HandlerClear(t) ==
    /\ UNCHANGED <<rx, pd, pb, bo, tm, mg, lr>>
    /\ UNCHANGED faults
    /\ th[t].pc = "h_clear"
    /\ sock' = [sock EXCEPT ![th[t].conn] = None]
    /\ Set(t, [pc |-> "h_port"])
    /\ UNCHANGED <<managerVars, port, use_framing, io_lock, conn_lock, sockets, envVars, budget>>

\* variant: the stored Session is dropped when the last attempt has failed
HandlerDiscardSession(t) ==
    /\ UNCHANGED <<rx, pd, pb, bo, tm, mg, lr>>
    /\ th[t].pc = "h_port"
    /\ \E d \in DiscoverOutcomes :
         /\ IF d = None THEN CanFail /\ Spend ELSE UNCHANGED faults
         /\ port' = IF d # None THEN [port EXCEPT ![th[t].conn] = d] ELSE port
         /\ LET i == Hist([io |-> th[t].io \cup {"probe"}, resolved |-> d]) IN
              IF th[t].attempt < Attempts(config_max_retries)
              THEN /\ Set(t, Merge([pc |-> "s_try", attempt |-> th[t].attempt + 1, exc |-> NoVal], i))
                   /\ UNCHANGED unity_connection
              ELSE /\ Set(t, Merge(SendRaise(t, th[t].exc), i))
                   /\ unity_connection' = IF unity_connection = th[t].conn THEN None
                                          ELSE unity_connection
    /\ UNCHANGED <<connection_lock, nextSession, sock, use_framing, io_lock, conn_lock,
                   sockets, envVars, budget>>

\* the port is discovered again and stored; then the next attempt after the
\* backoff sleep, or the exception is raised again after the last attempt
HandlerRediscover(t) ==
    /\ UNCHANGED <<rx, pd, pb, bo, tm, mg, lr>>
    /\ th[t].pc = "h_port"
    /\ \E d \in DiscoverOutcomes :
         /\ IF d = None THEN CanFail /\ Spend ELSE UNCHANGED faults
         /\ port' = IF d # None THEN [port EXCEPT ![th[t].conn] = d] ELSE port
         /\ LET i == Hist([io |-> th[t].io \cup {"probe"}, resolved |-> d]) IN
              IF th[t].attempt < Attempts(config_max_retries)
              THEN Set(t, Merge([pc |-> "s_try", attempt |-> th[t].attempt + 1, exc |-> NoVal], i))
              ELSE Set(t, Merge(SendRaise(t, th[t].exc), i))
    /\ UNCHANGED <<managerVars, sock, use_framing, io_lock, conn_lock, sockets, envVars, budget>>

\* --------------------------------------------------- get_unity_connection
\* variant: the stored connection is pinged before it is returned
GetFastPing(t) ==
    /\ UNCHANGED <<rx, pd, pb, bo, tm, mg, lr>>
    /\ UNCHANGED faults
    /\ th[t].pc = "g_fast"
    /\ IF unity_connection # None
       THEN Set(t, Merge(GetReturn(t, unity_connection),
                         Hist([reused |-> TRUE, io |-> th[t].io \cup {"write"}])))
       ELSE Set(t, [pc |-> "g_lock"])
    /\ UNCHANGED <<managerVars, sessionVars, sockets, envVars, budget>>

\* if _unity_connection is not None: return _unity_connection
GetFast(t) ==
    /\ UNCHANGED <<rx, pd, pb, bo, tm, mg, lr>>
    /\ UNCHANGED faults
    /\ th[t].pc = "g_fast"
    /\ IF unity_connection # None
       THEN Set(t, Merge(GetReturn(t, unity_connection), Hist([reused |-> TRUE])))
       ELSE Set(t, [pc |-> "g_lock"])
    /\ UNCHANGED <<managerVars, sessionVars, sockets, envVars, budget>>

\* with _connection_lock:
GetLock(t) ==
    /\ UNCHANGED <<rx, pd, pb, bo, tm, mg, lr>>
    /\ UNCHANGED faults
    /\ th[t].pc = "g_lock"
    /\ connection_lock = None
    /\ connection_lock' = t
    /\ Set(t, [pc |-> "g_check"])
    /\ UNCHANGED <<unity_connection, nextSession, sessionVars, sockets, envVars, budget>>

\* the second test, then _unity_connection = UnityConnection(), whose
\* __post_init__ discovers the port
GetCreate(t) ==
    /\ UNCHANGED <<rx, pd, pb, bo, tm, mg, lr>>
    /\ th[t].pc = "g_check"
    /\ IF unity_connection # None
       THEN /\ connection_lock' = None
            /\ Set(t, Merge(GetReturn(t, unity_connection), Hist([reused |-> TRUE])))
            /\ UNCHANGED <<unity_connection, nextSession, port, faults>>
       ELSE \E d \in DiscoverOutcomes :
              IF d = None
              THEN /\ CanFail /\ Spend
                   /\ connection_lock' = None
                   /\ Set(t, Merge(SendRaise(t, Exc("DiscoveryError", 0)),
                                   Hist([io |-> th[t].io \cup {"probe"}])))
                   /\ UNCHANGED <<unity_connection, nextSession, port>>
              ELSE /\ nextSession <= MaxSessions
                   /\ port' = [port EXCEPT ![nextSession] = d]
                   /\ unity_connection' = nextSession
                   /\ nextSession' = nextSession + 1
                   /\ Set(t, Merge([pc |-> "c_fast", from |-> "get", conn |-> nextSession],
                                   Hist([io |-> th[t].io \cup {"probe"}])))
                   /\ UNCHANGED <<connection_lock, faults>>
    /\ UNCHANGED <<sock, use_framing, io_lock, conn_lock, sockets, envVars, budget>>

\* variant: the reference stays stored when connect() has failed
GetAfterConnectKeep(t) ==
    /\ UNCHANGED <<rx, pd, pb, bo, tm, mg, lr>>
    /\ UNCHANGED faults
    /\ th[t].pc = "g_after"
    /\ IF th[t].ret
       THEN Set(t, Merge(GetReturn(t, th[t].conn), [ret |-> FALSE, greeting |-> "none"]))
       ELSE Set(t, SendRaise(t, Exc("ConnectionError", 0)))
    /\ connection_lock' = None
    /\ UNCHANGED <<unity_connection, nextSession, sessionVars, sockets, envVars, budget>>

\* if not _unity_connection.connect(): _unity_connection = None; raise ConnectionError
GetAfterConnect(t) ==
    /\ UNCHANGED <<rx, pd, pb, bo, tm, mg, lr>>
    /\ UNCHANGED faults
    /\ th[t].pc = "g_after"
    /\ IF th[t].ret
       THEN /\ Set(t, Merge(GetReturn(t, th[t].conn), [ret |-> FALSE, greeting |-> "none"]))
            /\ UNCHANGED unity_connection
       ELSE /\ unity_connection' = None
            /\ Set(t, SendRaise(t, Exc("ConnectionError", 0)))
    /\ connection_lock' = None
    /\ UNCHANGED <<nextSession, sessionVars, sockets, envVars, budget>>

\* ------------------------------------------------ send_command_with_retry
\* the while loop on the response of conn.send_command
RetryLoop(t) ==
    /\ UNCHANGED <<rx, pd, pb, bo, tm, mg, lr>>
    /\ UNCHANGED faults
    /\ th[t].pc = "w_loop"
    /\ IF IsReloadingResponse(th[t].response) /\ th[t].retries < th[t].max_retries
       THEN Set(t, [pc |-> "s_guard", retries |-> th[t].retries + 1,
                    delay_ms |-> ReloadDelay(th[t].response, reload_retry_ms)])
       ELSE Set(t, Done(t, [pc |-> "idle", out |-> "return"]))
    /\ UNCHANGED <<managerVars, sessionVars, sockets, envVars, budget>>

\* ------------------------------------------------------------ environment
\* the peer rewrites its status file
StatusChange ==
    /\ UNCHANGED <<rx, pd, pb, bo, tm, mg, lr>>
    /\ CanFail /\ Spend
    /\ UNCHANGED inputs
    /\ reloading' = ~reloading
    /\ th' = [t \in Threads |-> [th[t] EXCEPT !.reloadAll = FALSE]]
    /\ UNCHANGED <<managerVars, sessionVars, sockets, require_framing,
                   config_max_retries, callers, budget>>

\* what a caller does inside a call of send_command_with_retry
Inside(t) ==
         \/ ConnectFast(t) \/ ConnectLock(t) \/ ConnectOpen(t) \/ ConnectHandshake(t)
         \/ ConnectFinish(t)
         \/ SendGuard(t) \/ SendTry(t) \/ SendLock(t) \/ SendWrite(t) \/ SendReceive(t)
         \/ HandlerClose(t) \/ HandlerClear(t) \/ HandlerRediscover(t)
         \/ GetFast(t) \/ GetLock(t) \/ GetCreate(t) \/ GetAfterConnect(t)
         \/ RetryLoop(t)

Step(t) == CallSendWithRetry(t) \/ Inside(t)

Next ==
    \/ \E t \in Threads : Construct(t) \/ CallConnect(t) \/ CallSend(t) \/ Step(t)
    \/ StatusChange

NextConc ==
    \/ \E t \in Threads : Step(t)
    \/ StatusChange

Spec == Init /\ [][Next]_vars

SpecConc == InitConc /\ [][NextConc]_vars

\* one caller of async_send_command_with_retry, every argument
InitAsync ==
    /\ InitCommon
    /\ config_max_retries \in MaxRetriesValues
    /\ callers = {1}
    /\ inputs = [types |-> CommandTypes, params |-> ParamValues, retries |-> 0..MaxReloadRetries,
                 ports |-> Ports, history |-> TRUE, limited |-> FALSE]
    /\ faults = 0
    /\ budget = [t \in Threads |-> IF t = 1 THEN CallsAsync ELSE 0]

NextAsync ==
    \/ \E t \in Threads : CallAsync(t) \/ Inside(t)
    \/ StatusChange

SpecAsync == InitAsync /\ [][NextAsync]_vars

\* two callers of get_unity_connection at the same time
InitMgr ==
    /\ InitCommon
    /\ reloading = FALSE
    /\ config_max_retries = 3
    /\ callers = Threads
    /\ inputs = [types |-> {"cmd"}, params |-> {"dict"}, retries |-> {0},
                 ports |-> Ports, history |-> TRUE, limited |-> TRUE]
    /\ faults = FaultsMgr
    /\ budget = [t \in Threads |-> CallsMgr]

NextMgr ==
    \E t \in Threads :
        \/ CallGet(t)
        \/ GetFast(t) \/ GetLock(t) \/ GetCreate(t) \/ GetAfterConnect(t)
        \/ ConnectFast(t) \/ ConnectLock(t) \/ ConnectOpen(t) \/ ConnectHandshake(t)
        \/ ConnectFinish(t)

SpecMgr == InitMgr /\ [][NextMgr]_vars

\* one caller of send_command_with_retry; at most FaultsHeal operations fail
\* (fewer than the attempts of one call), and from then on the peer listens on
\* the port that discovery returns, greets as required and answers
InitHeal ==
    /\ InitCommon
    /\ reloading = FALSE
    /\ config_max_retries \in MaxRetriesValues
    /\ callers = {1}
    /\ inputs = [types |-> {"ping", "cmd"}, params |-> {"dict"}, retries |-> {0},
                 ports |-> Ports, history |-> TRUE, limited |-> TRUE]
    /\ faults = FaultsHeal
    /\ budget = [t \in Threads |-> IF t = 1 THEN CallsHeal ELSE 0]

NextHeal == \E t \in Threads : Step(t)

\* the calling thread keeps running: every blocking call of the code (connect,
\* recv, the backoff sleep) has a timeout, and no other thread holds a lock
SpecHeal == InitHeal /\ [][NextHeal]_vars /\ WF_vars(NextHeal)

\* =========================================================================
\* receive_full_response in framed mode, on the byte stream of one socket
\* -------------------------------------------------------------------------
\* struct.pack('>Q', n) for n below 2^31: eight bytes, most significant first
Pack(n) ==
    <<0, 0, 0, 0, (n \div 16777216) % 256, (n \div 65536) % 256, (n \div 256) % 256, n % 256>>

\* what the sender writes for one message
Frame(payload) == Pack(Len(payload)) \o payload

\* payload_len == 0, on the eight header bytes
IsZeroLength(h) == \A i \in 1..8 : h[i] = 0

\* payload_len > FRAMED_MAX, on the eight header bytes (64 bits, unsigned)
ExceedsMax(h) ==
    \/ \E i \in 1..4 : h[i] # 0
    \/ h[5] * 16777216 + h[6] * 65536 + h[7] * 256 + h[8] > FRAMED_MAX

\* struct.unpack('>Q', header)[0] of a header that is not above FRAMED_MAX
UnpackQ(h) == h[5] * 16777216 + h[6] * 65536 + h[7] * 256 + h[8]

\* recv(n) gives at least one byte and at most n, of those that have arrived
Smaller(a, b) == IF a < b THEN a ELSE b

\* variant: every recv asks for the whole count again
RecvWholeCount(count, have) == count

\* _read_exact: sock.recv(count - len(data))
RecvLimit(count, have) == count - have

\* variant: zero-length frames are skipped without limit
NoHeartbeatLimit(count, late) == FALSE

\* variant: the deadline is not looked at
CountOnlyLimit(count, late) == count >= max_heartbeat_frames

\* heartbeat_count >= max_heartbeat_frames or time.monotonic() > deadline
HeartbeatLimit(count, late) == count >= max_heartbeat_frames \/ late

RECURSIVE Heartbeats(_)
Heartbeats(n) == IF n = 0 THEN <<>> ELSE Pack(0) \o Heartbeats(n - 1)

\* what the peer sends after its heartbeats: the bytes, and the payloads of
\* the complete frames among them that are neither empty nor too long
Tails ==
    {[bytes |-> <<>>, msgs |-> <<>>],
     [bytes |-> Frame(<<123>>), msgs |-> << <<123>> >>],
     [bytes |-> Frame(<<123, 125>>) \o Frame(<<91>>), msgs |-> << <<123, 125>>, <<91>> >>],
     [bytes |-> Frame(<<123>>) \o Pack(0), msgs |-> << <<123>> >>],
     [bytes |-> Pack(2) \o <<123>>, msgs |-> <<>>],
     [bytes |-> Pack(FRAMED_MAX) \o <<123>>, msgs |-> <<>>],
     [bytes |-> Pack(FRAMED_MAX + 1) \o <<123>>, msgs |-> <<>>],
     [bytes |-> <<1, 0, 0, 0, 0, 0, 0, 0, 123>>, msgs |-> <<>>]}

\* recv on an exhausted stream: socket.timeout, or b'' from a closed peer
Endings == {"timeout", "closed"}

RxReturn(payload) == [pc |-> "done", out |-> "return", payload |-> payload, data |-> <<>>]

RxRaise(e) == [pc |-> "done", out |-> "raise", exc |-> e, data |-> <<>>]

\* a call of receive_full_response(sock) with use_framing set
RxCall ==
    /\ rx.pc = "idle"
    /\ \E n \in 0..MaxHeartbeats, tail \in Tails, e \in Endings :
         rx' = [pc |-> "hdr", stream |-> Heartbeats(n) \o tail.bytes, ending |-> e,
                data |-> <<>>, count |-> 8, heartbeat_count |-> 0, late |-> FALSE,
                out |-> "none", payload |-> <<>>, exc |-> "none",
                \* history: the heartbeats and the tail the peer was asked to send
                hb |-> n, tail |-> tail]
    /\ UNCHANGED <<connVars, pd, pb, bo, tm, mg, lr>>

\* time.monotonic() passes the deadline
RxDeadline ==
    /\ rx.pc \in {"hdr", "payload"}
    /\ ~rx.late
    /\ rx' = [rx EXCEPT !.late = TRUE]
    /\ UNCHANGED <<connVars, pd, pb, bo, tm, mg, lr>>

\* the header just read: heartbeat, protocol violation or the length of the payload
RxHeader(h) ==
    IF IsZeroLength(h)
    THEN IF HeartbeatLimit(rx.heartbeat_count + 1, rx.late)
         THEN Merge(RxReturn(<<>>), [heartbeat_count |-> rx.heartbeat_count + 1])
         ELSE [data |-> <<>>, count |-> 8, heartbeat_count |-> rx.heartbeat_count + 1]
    ELSE IF ExceedsMax(h) THEN RxRaise("ValueError")
    ELSE [pc |-> "payload", data |-> <<>>, count |-> UnpackQ(h)]

\* one sock.recv of _read_exact, and what follows it without further I/O
RxRecv ==
    /\ rx.pc \in {"hdr", "payload"}
    /\ IF rx.stream = <<>>
       THEN rx' = Upd(rx, RxRaise(IF rx.ending = "timeout" THEN "TimeoutError"
                                                           ELSE "ConnectionError"))
       ELSE \E k \in 1..Smaller(RecvLimit(rx.count, Len(rx.data)), Len(rx.stream)) :
              LET data == rx.data \o SubSeq(rx.stream, 1, k)
                  rest == SubSeq(rx.stream, k + 1, Len(rx.stream)) IN
                  rx' = Upd(rx, Merge([stream |-> rest],
                                IF Len(data) < rx.count THEN [data |-> data]
                                ELSE IF rx.pc = "hdr" THEN RxHeader(data)
                                ELSE RxReturn(data)))
    /\ UNCHANGED <<connVars, pd, pb, bo, tm, mg, lr>>

InitRecv ==
    /\ InitCommon
    /\ reloading = FALSE /\ require_framing = TRUE
    /\ config_max_retries = 3
    /\ callers = {}
    /\ inputs = [types |-> {}, params |-> {}, retries |-> {}, ports |-> {},
                 history |-> TRUE, limited |-> TRUE]
    /\ faults = 0
    /\ budget = [t \in Threads |-> 0]

NextRecv == RxCall \/ RxDeadline \/ RxRecv

SpecRecv == InitRecv /\ [][NextRecv]_vars

\* =========================================================================
\* PortDiscovery.discover_unity_port (port_discovery.py)
\* -------------------------------------------------------------------------
PdPorts == {DEFAULT_PORT, DEFAULT_PORT + 1, DEFAULT_PORT + 2}

\* what json.load and .get('unity_port') make of a file: ok is FALSE for a
\* file that cannot be opened (missing, unreadable, deleted since the
\* listing) or parsed (half-written, invalid JSON), that is not a JSON object
\* or whose unity_port is not an int
Contents ==
    {[ok |-> TRUE, port |-> p, gone |-> FALSE] : p \in PdPorts}
    \cup {[ok |-> FALSE, port |-> None, gone |-> FALSE]}

\* a per-project file deleted after glob listed it and before stat
Vanished == [ok |-> FALSE, port |-> None, gone |-> TRUE]

\* what _read_latest_status returns: None or a falsy value (no file, unreadable,
\* invalid JSON, null, {}), a JSON object without an int unity_port, a JSON
\* object naming a port, or a non-empty JSON value that is not an object
StatusFiles ==
    {[kind |-> "none", port |-> None], [kind |-> "noport", port |-> None],
     [kind |-> "nonobject", port |-> None]}
    \cup {[kind |-> "port", port |-> p] : p \in PdPorts}

\* the i-th unity-mcp-port-<hash>.json that glob yields
Hashed(i, mtime, c) ==
    [name |-> i, legacy |-> FALSE, mtime |-> mtime, ok |-> c.ok, port |-> c.port, gone |-> c.gone]

\* unity-mcp-port.json, which exists() has found
Legacy(mtime, c) ==
    [name |-> 0, legacy |-> TRUE, mtime |-> mtime, ok |-> c.ok, port |-> c.port, gone |-> FALSE]

\* the legacy file: absent, or as old as the oldest per-project file, or newer than all
LegacyFiles == {<<>>} \cup {<<Legacy(m, c)>> : m \in {1, MaxMtime + 1}, c \in Contents}

\* the directory listings: per-project files in glob order
GlobListings ==
    UNION {{[i \in 1..n |-> Hashed(i, mt[i], cs[i])] :
               mt \in [1..n -> 1..MaxMtime], cs \in [1..n -> Contents \cup {Vanished}]} :
           n \in 0..MaxHashed}

\* sorted(..., reverse=True) inserts f before the first file it is newer than
RECURSIVE InsertByMtime(_, _)
InsertByMtime(f, sorted) ==
    IF sorted = <<>> THEN <<f>>
    ELSE IF f.mtime > Head(sorted).mtime THEN <<f>> \o sorted
    ELSE <<Head(sorted)>> \o InsertByMtime(f, Tail(sorted))

\* variant: the files are taken in glob order
GlobOrder(files) == files

\* sorted(hashed, key=mtime, reverse=True): newest first, ties in glob order
RECURSIVE SortNewestFirst(_)
SortNewestFirst(files) ==
    IF files = <<>> THEN <<>>
    ELSE InsertByMtime(files[Len(files)], SortNewestFirst(SubSeq(files, 1, Len(files) - 1)))

\* variant: the legacy file is sorted in with the per-project files
LegacySortedIn(files, legacy) == SortNewestFirst(files \o legacy)

\* list_candidate_files: the sorted per-project files, then the legacy file
ListCandidateFiles(files, legacy) == SortNewestFirst(files) \o legacy

\* p.stat() of the sort key raises FileNotFoundError for a file that is gone
StatRaises(files) == \E i \in 1..Len(files) : files[i].gone

\* variant: the loop goes on where the last call left it
KeptIndex(idx) == idx

\* for path in candidates: from the first candidate
LoopStart(idx) == 1

\* _try_probe_unity_mcp(port), given the ports where a peer answers the ping
TryProbe(p, live) == p \in live

\* variant: the port of the status file is taken unprobed
TrustStatus(status, live) == status.kind = "port"

\* isinstance(port, int) and _try_probe_unity_mcp(port), on the status file
StatusAccepted(status, live) == status.kind = "port" /\ TryProbe(status.port, live)

\* variant: the port seen last is remembered
LastSeen(first, p) == p

\* if first_seen_port is None: first_seen_port = unity_port
FirstSeen(first, p) == IF first = None THEN p ELSE first

\* the locals of a call of discover_unity_port
PdLocals(idx) ==
    [candidates |-> <<>>, idx |-> LoopStart(idx), first_seen_port |-> None,
     result |-> None, via |-> "none", exc |-> "none",
     \* history: ports probed and files opened, in order
     probed |-> <<>>, read |-> <<>>]

PdEnded == pd.pc \in {"done", "raised"}

\* a call of discover_unity_port()
PdCall ==
    /\ pd.pc = "idle"
    /\ \E st \in StatusFiles, files \in GlobListings, legacy \in LegacyFiles,
          live \in SUBSET PdPorts :
         pd' = Merge([pc |-> "status", status |-> st, files |-> files, legacy |-> legacy,
                      live |-> live, call |-> 1, prev |-> [pc |-> "none", result |-> None]],
                     PdLocals(1))
    /\ UNCHANGED <<connVars, rx, pb, bo, tm, mg, lr>>

\* a second call, with the files and the listeners as the first call met them
PdAgain ==
    /\ PdEnded
    /\ pd.call = 1
    /\ pd' = Upd(pd, Merge([pc |-> "status", call |-> 2,
                            prev |-> [pc |-> pd.pc, result |-> pd.result]],
                           PdLocals(pd.idx)))
    /\ UNCHANGED <<connVars, rx, pb, bo, tm, mg, lr>>

\* the status file step, then list_candidate_files()
PdStatus ==
    /\ pd.pc = "status"
    /\ LET pr == IF pd.status.kind = "port" THEN <<pd.status.port>> ELSE <<>> IN
         IF pd.status.kind = "nonobject"
         THEN pd' = Upd(pd, [pc |-> "raised", exc |-> "AttributeError"])
         ELSE IF StatusAccepted(pd.status, pd.live)
         THEN pd' = Upd(pd, [pc |-> "done", result |-> pd.status.port, via |-> "status",
                             probed |-> pr])
         ELSE IF StatRaises(pd.files)
         THEN pd' = Upd(pd, [pc |-> "raised", exc |-> "FileNotFoundError", probed |-> pr])
         ELSE pd' = Upd(pd, [pc |-> "scan", probed |-> pr,
                             candidates |-> ListCandidateFiles(pd.files, pd.legacy)])
    /\ UNCHANGED <<connVars, rx, pb, bo, tm, mg, lr>>

\* one turn of the loop over the candidates
PdScan ==
    /\ pd.pc = "scan"
    /\ pd.idx <= Len(pd.candidates)
    /\ LET f == pd.candidates[pd.idx]
           r == [read |-> Append(pd.read, f)] IN
         IF ~f.ok THEN pd' = Upd(pd, Merge(r, [idx |-> pd.idx + 1]))
         ELSE LET seen == Merge(r, [first_seen_port |-> FirstSeen(pd.first_seen_port, f.port),
                                    probed |-> Append(pd.probed, f.port)]) IN
                IF TryProbe(f.port, pd.live)
                THEN pd' = Upd(pd, Merge(seen, [pc |-> "done", result |-> f.port,
                                                via |-> "registry"]))
                ELSE pd' = Upd(pd, Merge(seen, [idx |-> pd.idx + 1]))
    /\ UNCHANGED <<connVars, rx, pb, bo, tm, mg, lr>>

\* after the loop: the first port seen, or the default
PdFinish ==
    /\ pd.pc = "scan"
    /\ pd.idx > Len(pd.candidates)
    /\ IF pd.first_seen_port # None
       THEN pd' = Upd(pd, [pc |-> "done", result |-> pd.first_seen_port, via |-> "first_seen"])
       ELSE pd' = Upd(pd, [pc |-> "done", result |-> DEFAULT_PORT, via |-> "default"])
    /\ UNCHANGED <<connVars, rx, pb, bo, tm, mg, lr>>

InitDiscovery == InitRecv

NextDiscovery == PdCall \/ PdAgain \/ PdStatus \/ PdScan \/ PdFinish

SpecDiscovery == InitDiscovery /\ [][NextDiscovery]_vars

\* =========================================================================
\* PortDiscovery._try_probe_unity_mcp (port_discovery.py), byte by byte
\* -------------------------------------------------------------------------
\* b'"message":"pong"'
Ack == <<34, 109, 101, 115, 115, 97, 103, 101, 34, 58, 34, 112, 111, 110, 103, 34>>

Filler(n) == [i \in 1..n |-> 32]

\* what the peer has to say after the ping: nothing (it closes), a greeting
\* line, a pong, a pong spelled with a blank, and pongs that end at or
\* straddle the end of the read
PeerAnswers ==
    {<<>>,
     <<87, 69, 76, 67, 79, 77, 69, 10>>,
     <<123>> \o Ack \o <<125>>,
     <<123, 34, 109, 101, 115, 115, 97, 103, 101, 34, 58, 32, 34, 112, 111, 110, 103, 34, 125>>,
     Filler(ProbeRecvSize - Len(Ack)) \o Ack,
     Filler(ProbeRecvSize - Len(Ack) + 1) \o Ack}

\* b"MCP/0.1 FRAMING=1\n", the greeting line of a peer that frames
Greeting == <<77, 67, 80, 47, 48, 46, 49, 32, 70, 82, 65, 77, 73, 78, 71, 61, 49, 10>>

\* a peer that follows the handshake (start_handshake_enforcing_server): it
\* closes on a client that writes before the greeting, so the ping is answered
\* by the end of the stream (or a reset), or by the greeting line where the
\* greeting was already on its way
StrictAnswers == {<<>>, Greeting}

Contains(data, pat) ==
    \E i \in 0..(Len(data) - Len(pat)) : SubSeq(data, i + 1, i + Len(pat)) = pat

\* variant: any reply is taken for the acknowledgment
AnyData(data) == data # <<>>

\* if data and b'"message":"pong"' in data
ProbeAccepts(data) == data # <<>> /\ Contains(data, Ack)

\* _try_probe_unity_mcp(port)
PbCall ==
    /\ pb.pc = "idle"
    /\ \E p \in PdPorts, peer \in {"plain", "strict"} : \E a \in (IF peer = "strict" THEN StrictAnswers ELSE PeerAnswers) :
         pb' = [pc |-> "connect", port |-> p, peer |-> peer, stream |-> a, open |-> FALSE,
                connected |-> FALSE, sent |-> FALSE, data |-> <<>>, result |-> FALSE,
                fail |-> "none"]
    /\ UNCHANGED <<connVars, rx, pd, bo, tm, mg, lr>>

\* with socket.create_connection(("127.0.0.1", port), CONNECT_TIMEOUT) as s:
\* refused or timed out (outer except: return False), or s is open
PbConnect ==
    /\ pb.pc = "connect"
    /\ \/ pb' = Upd(pb, [pc |-> "done", result |-> FALSE, fail |-> "connect"])
       \/ pb' = Upd(pb, [pc |-> "send", open |-> TRUE, connected |-> TRUE])
    /\ UNCHANGED <<connVars, rx, pd, bo, tm, mg, lr>>

\* s.sendall(b"ping"), or it raises: except Exception: return False
PbSend ==
    /\ pb.pc = "send"
    /\ \/ pb' = Upd(pb, [pc |-> "exit", result |-> FALSE, fail |-> "send"])
       \/ pb' = Upd(pb, [pc |-> "recv", sent |-> TRUE])
    /\ UNCHANGED <<connVars, rx, pd, bo, tm, mg, lr>>

\* data = s.recv(512) and the test of data; recv raises on a timeout or a reset
PbRecv ==
    /\ pb.pc = "recv"
    /\ \/ pb' = Upd(pb, [pc |-> "exit", result |-> FALSE, fail |-> "recv"])
       \/ \E k \in 0..Smaller(ProbeRecvSize, Len(pb.stream)) :
            /\ (k = 0) = (pb.stream = <<>>)
            /\ LET data == SubSeq(pb.stream, 1, k) IN
                 pb' = Upd(pb, [pc |-> "exit", data |-> data, result |-> ProbeAccepts(data)])
    /\ UNCHANGED <<connVars, rx, pd, bo, tm, mg, lr>>

\* the end of the with block closes s; then the value is returned
PbExit ==
    /\ pb.pc = "exit"
    /\ pb' = Upd(pb, [pc |-> "done", open |-> FALSE])
    /\ UNCHANGED <<connVars, rx, pd, bo, tm, mg, lr>>

InitProbe == InitRecv

NextProbe == PbCall \/ PbConnect \/ PbSend \/ PbRecv \/ PbExit

SpecProbe == InitProbe /\ [][NextProbe]_vars

\* =========================================================================
\* the attempts of one send_command and the sleep between them (milliseconds)
\* -------------------------------------------------------------------------
\* where an attempt fails: inside connect() (create_connection refused or
\* timed out, the greeting read reset by the peer, the greeting rejected), in
\* sendall (reset, broken pipe), in receive_full_response (reset, timeout,
\* stream closed, invalid frame length), or in the parse step
ConnectOrigins == {"connect_refused", "connect_timeout", "connect_reset", "greeting_rejected"}

Origins ==
    ConnectOrigins \cup {"send_reset", "send_broken_pipe", "recv_reset", "recv_timeout",
                         "recv_closed", "recv_invalid_frame", "bad_reply"}

\* the class of the exception that reaches the except clause of send_command:
\* connect() catches whatever is raised inside it and returns False, and
\* send_command then raises Exception("Could not connect to Unity"); a receive
\* timeout is raised as TimeoutError in framed mode and as Exception in legacy mode
Raised(origin, framed) ==
    IF origin \in ConnectOrigins THEN "Exception"
    ELSE IF origin \in {"send_reset", "recv_reset"} THEN "ConnectionResetError"
    ELSE IF origin = "send_broken_pipe" THEN "BrokenPipeError"
    ELSE IF origin = "recv_timeout" THEN (IF framed THEN "TimeoutError" ELSE "Exception")
    ELSE IF origin = "recv_closed" THEN (IF framed THEN "ConnectionError" ELSE "Exception")
    ELSE IF origin = "recv_invalid_frame" THEN "ValueError"
    ELSE "JSONDecodeError"

\* fast_error: isinstance(e, (ConnectionRefusedError, ConnectionResetError,
\* TimeoutError)), or e.errno in (ECONNREFUSED, ECONNRESET, ETIMEDOUT), which
\* are the errno values of these three classes
FastError(exc) == exc \in {"ConnectionRefusedError", "ConnectionResetError", "TimeoutError"}

\* variant: the class of the failure is tested before the status file
CapFastFirst(reloading_now, fast_error) ==
    IF fast_error THEN FastCap ELSE IF reloading_now THEN ReloadCap ELSE SlowCap

\* if status and status.get('reloading'): cap = 0.8 / elif fast_error: cap = 0.25 / else: cap = 3.0
BackoffCap(reloading_now, fast_error) ==
    IF reloading_now THEN ReloadCap ELSE IF fast_error THEN FastCap ELSE SlowCap

RECURSIVE Pow2(_)
Pow2(n) == IF n = 0 THEN 1 ELSE 2 * Pow2(n - 1)

\* send_command past its guards and its preflight: attempts = max(config.max_retries, 5)
BoCall ==
    /\ bo.pc = "idle"
    /\ \E cfg \in MaxRetriesValues, framed \in BOOLEAN :
         bo' = [pc |-> "try", attempts |-> Attempts(cfg), framed |-> framed, attempt |-> 0,
                slept |-> FALSE, failed |-> 0, origin |-> "none", exc |-> "none",
                fast_error |-> FALSE, reloading |-> FALSE, jitter |-> 0, cap |-> 0, sleep |-> 0]
    /\ UNCHANGED <<connVars, rx, pd, pb, tm, mg, lr>>

\* the body of the try: it returns, or an exception reaches the except clause
BoAttempt ==
    /\ bo.pc = "try"
    /\ \/ bo' = Upd(bo, [pc |-> "returned"])
       \/ \E o \in Origins :
            /\ o \in {"recv_invalid_frame"} => bo.framed
            /\ bo' = Upd(bo, [pc |-> "handler", origin |-> o, exc |-> Raised(o, bo.framed)])
    /\ UNCHANGED <<connVars, rx, pd, pb, tm, mg, lr>>

\* if attempt < attempts: read the status file, draw the jitter, classify the
\* exception, choose the cap, sleep min(cap, jitter * (2 ** attempt)),
\* continue; else raise
BoHandler ==
    /\ bo.pc = "handler"
    /\ IF bo.attempt < bo.attempts
       THEN \E r \in BOOLEAN, j \in {JitterMin, 170, JitterMax} :
              LET fast == FastError(bo.exc)
                  cap == BackoffCap(r, fast) IN
                bo' = Upd(bo, [pc |-> "try", attempt |-> bo.attempt + 1, slept |-> TRUE,
                               failed |-> bo.attempt, fast_error |-> fast, reloading |-> r,
                               jitter |-> j, cap |-> cap, sleep |-> Smaller(cap, j * Pow2(bo.attempt))])
       ELSE bo' = Upd(bo, [pc |-> "raised"])
    /\ UNCHANGED <<connVars, rx, pd, pb, tm, mg, lr>>

NextBackoff == BoCall \/ BoAttempt \/ BoHandler

SpecBackoff == InitRecv /\ [][NextBackoff]_vars

\* =========================================================================
\* TelemetryCollector.record_milestone (telemetry.py), called by the wrappers
\* of telemetry_decorator.py after the tool function has returned
\* -------------------------------------------------------------------------
Milestones == {"first_tool_usage", "first_script_creation"}

\* get_telemetry(): TelemetryCollector() reads its configuration, creates its
\* lock (threading.Lock, not reentrant) and loads the milestones file
TmConstruct ==
    /\ tm.pc = "idle"
    /\ \E e \in BOOLEAN, ms \in SUBSET Milestones :
         tm' = [pc |-> "run", enabled |-> e, lock |-> None, milestones |-> ms, file |-> ms,
                c |-> [t \in Threads |->
                         [pc |-> "idle", site |-> "none", m |-> "none", ret |-> "none"]]]
    /\ UNCHANGED <<connVars, rx, pd, pb, bo, mg, lr>>

\* record_milestone(m): if not self.config.enabled: return False
TmCall(t) ==
    /\ tm.pc = "run"
    /\ tm.c[t].pc \in {"idle", "done"}
    /\ \E m \in Milestones :
         tm' = [tm EXCEPT !.c[t] =
                  IF tm.enabled
                  THEN [pc |-> "acquire", site |-> "record_milestone", m |-> m, ret |-> "none"]
                  ELSE [pc |-> "done", site |-> "none", m |-> m, ret |-> "False"]]
    /\ UNCHANGED <<connVars, rx, pd, pb, bo, mg, lr>>

\* with self._lock: the acquire blocks while the lock is held, by whichever
\* thread.  In record_milestone the body of the with block follows; in
\* _save_milestones the file is written and the lock released, after which
\* the with block of record_milestone releases a lock that is not held
TmAcquire(t) ==
    /\ tm.pc = "run"
    /\ tm.c[t].pc = "acquire"
    /\ tm.lock = None
    /\ IF tm.c[t].site = "record_milestone"
       THEN tm' = [tm EXCEPT !.lock = t, !.c[t].pc = "locked"]
       ELSE tm' = [tm EXCEPT !.file = tm.milestones, !.c[t].pc = "done",
                             !.c[t].ret = "RuntimeError"]
    /\ UNCHANGED <<connVars, rx, pd, pb, bo, mg, lr>>

\* the body of the with block of record_milestone: return False for a known
\* milestone (the lock is released), else store it and call _save_milestones
\* with the lock still held
TmBody(t) ==
    /\ tm.pc = "run"
    /\ tm.c[t].pc = "locked"
    /\ IF tm.c[t].m \in tm.milestones
       THEN tm' = [tm EXCEPT !.lock = None, !.c[t].pc = "done", !.c[t].ret = "False"]
       ELSE tm' = [tm EXCEPT !.milestones = @ \cup {tm.c[t].m},
                             !.c[t].pc = "acquire", !.c[t].site = "_save_milestones"]
    /\ UNCHANGED <<connVars, rx, pd, pb, bo, mg, lr>>

TmStep(t) == TmCall(t) \/ TmAcquire(t) \/ TmBody(t)

NextTelemetry == TmConstruct \/ \E t \in Threads : TmStep(t)

\* every thread keeps running, and a thread that waits for the lock gets it
\* if the lock is free again and again
SpecTelemetry ==
    /\ InitRecv /\ [][NextTelemetry]_vars
    /\ WF_vars(TmConstruct)
    /\ \A t \in Threads : SF_vars(TmStep(t))

\* =========================================================================
\* the main connection module (UnityMcpBridge/UnityMcpServer~/src/
\* unity_connection.py): get_unity_connection and the send_command it calls;
\* one thread, no locks, no handshake
\* -------------------------------------------------------------------------
\* the guards of send_command: ValueError for an empty command type, the
\* structured error for params None, else the call goes on
MainGuard(command_type, params) ==
    IF command_type = "" THEN "raise"
    ELSE IF params = "None" THEN "noparams"
    ELSE "go"

\* module load: _unity_connection = None; the peer is up or down
MgLoad ==
    /\ mg.pc = "idle"
    /\ \E p \in {"up", "down"}, cfg \in MaxRetriesValues :
         mg' = [pc |-> "ready", op |-> "none", stored |-> FALSE, sock |-> "none", peer |-> p,
                attempts |-> Attempts(cfg), attempt |-> 0, from |-> "none",
                command_type |-> "none", pinged |-> FALSE, io |-> {}, out |-> "none",
                exc |-> "none", stale |-> FALSE]
    /\ UNCHANGED <<connVars, rx, pd, pb, bo, tm, lr>>

\* the peer stops or starts between two steps; a socket connected to a peer
\* that stops stays set as self.sock, and fails when it is used
MgPeer ==
    /\ mg.pc # "idle"
    /\ mg' = IF mg.peer = "up"
             THEN Upd(mg, [peer |-> "down", sock |-> IF mg.sock = "open" THEN "dead" ELSE mg.sock])
             ELSE Upd(mg, [peer |-> "up"])
    /\ UNCHANGED <<connVars, rx, pd, pb, bo, tm, lr>>

\* what a call returns to: the caller of send_command, or get_unity_connection
\* after its first or its second send_command("ping")
MgReturn(from, v) ==
    IF from = "send" THEN [pc |-> "ready", out |-> v]
    ELSE [pc |-> "ready", out |-> "return"]

MgRaise(from, e) ==
    IF from = "send" THEN [pc |-> "ready", out |-> "raise", exc |-> e]
    ELSE IF from = "g_test" THEN [pc |-> "g_create", sock |-> "none", stored |-> FALSE]
    ELSE [pc |-> "ready", out |-> "raise", exc |-> "ConnectionError", sock |-> "none",
          stored |-> FALSE]

\* send_command(command_type, params) up to the attempt loop
MgEnter(from, command_type, params, reloading_now) ==
    LET g == MainGuard(command_type, params) IN
      IF g = "raise" THEN MgRaise(from, "ValueError")
      ELSE IF g = "noparams" THEN MgReturn(from, "noparams")
      ELSE IF reloading_now THEN MgReturn(from, "reloading")
      ELSE [pc |-> "s_try", from |-> from, command_type |-> command_type, attempt |-> 0]

\* a call of get_unity_connection()
MgCallGet ==
    /\ mg.pc = "ready"
    /\ mg' = Upd(mg, [pc |-> "g_test", op |-> "get", pinged |-> FALSE, io |-> {}, out |-> "none",
                      exc |-> "none", stale |-> mg.stored /\ mg.sock # "open"])
    /\ UNCHANGED <<connVars, rx, pd, pb, bo, tm, lr>>

\* if _unity_connection is not None: try: _unity_connection.send_command("ping"),
\* where params is left at its default None
MgTest ==
    /\ mg.pc = "g_test"
    /\ IF mg.stored
       THEN \E r \in BOOLEAN :
              mg' = Upd(mg, MgEnter("g_test", "ping", "None", r))
       ELSE mg' = Upd(mg, [pc |-> "g_create"])
    /\ UNCHANGED <<connVars, rx, pd, pb, bo, tm, lr>>

\* _unity_connection = UnityConnection(); if not connect(): reset and raise
MgCreate ==
    /\ mg.pc = "g_create"
    /\ IF mg.peer = "up"
       THEN mg' = Upd(mg, [pc |-> "g_verify", stored |-> TRUE, sock |-> "open",
                           io |-> mg.io \cup {"connect"}])
       ELSE mg' = Upd(mg, [pc |-> "ready", stored |-> FALSE, sock |-> "none", out |-> "raise",
                           exc |-> "ConnectionError", io |-> mg.io \cup {"connect"}])
    /\ UNCHANGED <<connVars, rx, pd, pb, bo, tm, lr>>

\* try: _unity_connection.send_command("ping") on the new connection
MgVerify ==
    /\ mg.pc = "g_verify"
    /\ \E r \in BOOLEAN :
         mg' = Upd(mg, MgEnter("g_verify", "ping", "None", r))
    /\ UNCHANGED <<connVars, rx, pd, pb, bo, tm, lr>>

\* a tool calls get_unity_connection().send_command(command_type, params)
MgCallSend ==
    /\ mg.pc = "ready" /\ mg.stored
    /\ \E c \in CommandTypes, p \in ParamValues, r \in BOOLEAN :
         mg' = Upd(mg, Merge([op |-> "send", pinged |-> FALSE, io |-> {}, out |-> "none",
                              exc |-> "none", stale |-> FALSE],
                             MgEnter("send", c, p, r)))
    /\ UNCHANGED <<connVars, rx, pd, pb, bo, tm, lr>>

\* one attempt: connect if self.sock is not set, sendall, receive, parse
MgAttempt ==
    /\ mg.pc = "s_try"
    /\ \/ /\ mg.sock = "none" /\ mg.peer = "down"
          /\ mg' = Upd(mg, [pc |-> "s_handler", exc |-> "ConnectionRefusedError",
                            sock |-> "dead", io |-> mg.io \cup {"connect"}])
       \/ /\ mg.sock = "dead"
          /\ mg' = Upd(mg, [pc |-> "s_handler", exc |-> "ConnectionResetError",
                            io |-> mg.io \cup {"write"}])
       \/ /\ mg.sock = "open" \/ (mg.sock = "none" /\ mg.peer = "up")
          /\ LET i == mg.io \cup (IF mg.sock = "none" THEN {"connect"} ELSE {})
                        \cup {"write", "read"} IN
               \E reply \in {"pong", "success", "error", "timeout"} :
                 IF reply = "timeout"
                 THEN mg' = Upd(mg, [pc |-> "s_handler", exc |-> "Exception", sock |-> "open",
                                     io |-> i])
                 ELSE IF mg.command_type = "ping"
                 THEN IF reply = "pong"
                      THEN mg' = Upd(mg, Merge([sock |-> "open", io |-> i, pinged |-> TRUE],
                                               MgReturn(mg.from, "pong")))
                      ELSE mg' = Upd(mg, [pc |-> "s_handler", exc |-> "Exception",
                                          sock |-> "open", io |-> i])
                 ELSE IF reply = "error"
                      THEN mg' = Upd(mg, [pc |-> "s_handler", exc |-> "Exception",
                                          sock |-> "open", io |-> i])
                      ELSE mg' = Upd(mg, Merge([sock |-> "open", io |-> i],
                                               MgReturn(mg.from, "result")))
    /\ UNCHANGED <<connVars, rx, pd, pb, bo, tm, lr>>

\* except Exception: close the socket, self.sock = None, re-discover the port,
\* sleep and try again, or raise after the last attempt
MgHandler ==
    /\ mg.pc = "s_handler"
    /\ IF mg.attempt < mg.attempts
       THEN mg' = Upd(mg, [pc |-> "s_try", sock |-> "none", attempt |-> mg.attempt + 1])
       ELSE mg' = Upd(mg, Merge([sock |-> "none"], MgRaise(mg.from, mg.exc)))
    /\ UNCHANGED <<connVars, rx, pd, pb, bo, tm, lr>>

NextMain ==
    \/ MgLoad \/ MgPeer \/ MgCallGet \/ MgTest \/ MgCreate \/ MgVerify
    \/ MgCallSend \/ MgAttempt \/ MgHandler

SpecMain == InitRecv /\ [][NextMain]_vars

\* =========================================================================
\* receive_full_response in legacy mode, on the byte stream of one socket
\* -------------------------------------------------------------------------
\* '{"status":"success","result":{"message":"pong"'
PongPrefix ==
    <<123, 34, 115, 116, 97, 116, 117, 115, 34, 58, 34, 115, 117, 99, 99, 101, 115, 115, 34,
      44, 34, 114, 101, 115, 117, 108, 116, 34, 58, 123, 34, 109, 101, 115, 115, 97, 103, 101,
      34, 58, 34, 112, 111, 110, 103, 34>>

\* '"content":'
ContentKey ==
    <<34, 99, 111, 110, 116, 101, 110, 116, 34, 58>>

\* what the peer sends before it closes the stream or falls silent
\* (nothing; b'{"a":1}'; the pong after a blank; b'{"content":"a\"b"}', a
\* content string that holds an escaped quote; b'{"content":"ab"}'; b'hi', no
\* JSON document; a document with the two-byte character e acute, 195 169)
LegacyStreams ==
    {<<>>,
     <<123, 34, 97, 34, 58, 49, 125>>,
     <<32, 123, 34, 115, 116, 97, 116, 117, 115, 34, 58, 34, 115, 117, 99, 99, 101, 115, 115,
       34, 44, 34, 114, 101, 115, 117, 108, 116, 34, 58, 123, 34, 109, 101, 115, 115, 97, 103,
       101, 34, 58, 34, 112, 111, 110, 103, 34, 125, 125>>,
     <<123, 34, 99, 111, 110, 116, 101, 110, 116, 34, 58, 34, 97, 92, 34, 98, 34, 125>>,
     <<123, 34, 99, 111, 110, 116, 101, 110, 116, 34, 58, 34, 97, 98, 34, 125>>,
     <<104, 105>>,
     <<123, 34, 97, 34, 58, 34, 195, 169, 34, 125>>}

At(s, i) == IF i >= 1 /\ i <= Len(s) THEN s[i] ELSE -1

\* data.decode('utf-8') of bytes below 224: every lead byte 194..223 is
\* followed by one continuation byte 128..191; the text has the same bytes
RECURSIVE Utf8Valid(_, _)
Utf8Valid(s, i) ==
    IF i > Len(s) THEN TRUE
    ELSE IF s[i] < 128 THEN Utf8Valid(s, i + 1)
    ELSE IF s[i] >= 194 /\ s[i] <= 223
         THEN At(s, i + 1) >= 128 /\ At(s, i + 1) <= 191 /\ Utf8Valid(s, i + 2)
    ELSE FALSE

\* index of the first byte at or after i that is no whitespace (blank, tab, LF, CR)
RECURSIVE SkipWs(_, _)
SkipWs(s, i) == IF At(s, i) \in {32, 9, 10, 13} THEN SkipWs(s, i + 1) ELSE i

StartsWith(s, i, pat) == i + Len(pat) - 1 <= Len(s) /\ SubSeq(s, i, i + Len(pat) - 1) = pat

\* str.find(pat): 0-based index of the first occurrence, or -1
StrFind(s, pat) ==
    LET hits == {i \in 0..(Len(s) - Len(pat)) : StartsWith(s, i + 1, pat)} IN
      IF hits = {} THEN -1 ELSE CHOOSE i \in hits : \A j \in hits : i <= j

\* str.rfind('"', start): 0-based index of the last quote at or after start, or -1
StrRFindQuote(s, start) ==
    LET hits == {i \in start..(Len(s) - 1) : s[i + 1] = 34} IN
      IF hits = {} THEN -1 ELSE CHOOSE i \in hits : \A j \in hits : i >= j

\* content.replace('\\"', '"'): every backslash followed by a quote loses the backslash
RECURSIVE Unescape(_)
Unescape(s) ==
    IF s = <<>> THEN <<>>
    ELSE IF Len(s) >= 2 /\ s[1] = 92 /\ s[2] = 34 THEN <<34>> \o Unescape(SubSeq(s, 3, Len(s)))
    ELSE <<s[1]>> \o Unescape(Tail(s))

\* the rewrite of the text from the colon of the first "content": to the last quote
RewriteContent(s) ==
    IF StrFind(s, ContentKey) = -1 THEN s
    ELSE LET content_start == StrFind(s, ContentKey) + 9
             content_end == StrRFindQuote(s, content_start) IN
           IF content_end > content_start
           THEN SubSeq(s, 1, content_start)
                  \o Unescape(SubSeq(s, content_start + 1, content_end))
                  \o SubSeq(s, content_end + 1, Len(s))
           ELSE s

\* json.loads on documents made of objects, strings and unsigned integers:
\* each parser returns the index after what it has read, or 0; a backslash
\* in a string is followed by one of " \ / b f n r t, digits are 48..57
RECURSIVE StringEnd(_, _)
StringEnd(s, i) ==
    IF i > Len(s) THEN 0
    ELSE IF s[i] = 34 THEN i + 1
    ELSE IF s[i] = 92 THEN (IF At(s, i + 1) \in {34, 92, 47, 98, 102, 110, 114, 116}
                            THEN StringEnd(s, i + 2) ELSE 0)
    ELSE IF s[i] < 32 THEN 0
    ELSE StringEnd(s, i + 1)

ParseString(s, i) == IF At(s, i) = 34 THEN StringEnd(s, i + 1) ELSE 0

RECURSIVE NumberEnd(_, _)
NumberEnd(s, i) == IF At(s, i) \in 48..57 THEN NumberEnd(s, i + 1) ELSE i

RECURSIVE ParseValue(_, _)
RECURSIVE ParseMembers(_, _)
ParseValue(s, i) ==
    IF At(s, i) = 34 THEN ParseString(s, i)
    ELSE IF At(s, i) \in 48..57 THEN NumberEnd(s, i)
    ELSE IF At(s, i) = 123
         THEN LET j == SkipWs(s, i + 1) IN
                IF At(s, j) = 125 THEN j + 1 ELSE ParseMembers(s, j)
    ELSE 0

ParseMembers(s, i) ==
    LET k == ParseString(s, i) IN
      IF k = 0 THEN 0
      ELSE LET c == SkipWs(s, k) IN
        IF At(s, c) # 58 THEN 0
        ELSE LET v == ParseValue(s, SkipWs(s, c + 1)) IN
          IF v = 0 THEN 0
          ELSE LET m == SkipWs(s, v) IN
            IF At(s, m) = 44 THEN ParseMembers(s, SkipWs(s, m + 1))
            ELSE IF At(s, m) = 125 THEN m + 1
            ELSE 0

\* json.loads(text) does not raise: one value, blanks around it, nothing after it
JsonLoads(s) ==
    LET e == ParseValue(s, SkipWs(s, 1)) IN
      e # 0 /\ SkipWs(s, e) = Len(s) + 1

\* the test of the bytes received so far: the stripped text starts with the
\* pong prefix, or the rewritten text is a JSON document
LegacyComplete(s) ==
    \/ StartsWith(s, SkipWs(s, 1), PongPrefix)
    \/ JsonLoads(RewriteContent(s))

\* receive_full_response(sock) with use_framing False
LrCall ==
    /\ lr.pc = "idle"
    /\ \E s \in LegacyStreams, e \in {"close", "silence"} :
         lr' = [pc |-> "recv", stream |-> s, ending |-> e, have |-> 0, out |-> "none",
                value |-> "none", cause |-> "none"]
    /\ UNCHANGED <<connVars, rx, pd, pb, bo, tm, mg>>

\* chunk = sock.recv(buffer_size) gives some of the bytes to come; the bytes
\* so far are joined, decoded and tested
LrChunk ==
    /\ lr.pc = "recv"
    /\ lr.have < Len(lr.stream)
    /\ \E k \in 1..(Len(lr.stream) - lr.have) :
         LET data == SubSeq(lr.stream, 1, lr.have + k) IN
           IF ~Utf8Valid(data, 1)
           THEN lr' = Upd(lr, [pc |-> "done", have |-> lr.have + k, out |-> "raise",
                               value |-> "UnicodeDecodeError", cause |-> "decode"])
           ELSE IF LegacyComplete(data)
           THEN lr' = Upd(lr, [pc |-> "done", have |-> lr.have + k, out |-> "return",
                               value |-> "data",
                               cause |-> IF StartsWith(data, SkipWs(data, 1), PongPrefix) THEN "pong"
                                         ELSE "json"])
           ELSE lr' = Upd(lr, [have |-> lr.have + k])
    /\ UNCHANGED <<connVars, rx, pd, pb, bo, tm, mg>>

\* nothing more comes: recv returns b'' when the peer has closed (raise with
\* no chunk so far, else break, and the function ends without a return
\* statement), or recv times out
LrEnd ==
    /\ lr.pc = "recv"
    /\ lr.have = Len(lr.stream)
    /\ IF lr.ending = "silence"
       THEN lr' = Upd(lr, [pc |-> "done", out |-> "raise", value |-> "Exception",
                           cause |-> "timeout"])
       ELSE IF lr.have = 0
       THEN lr' = Upd(lr, [pc |-> "done", out |-> "raise", value |-> "Exception",
                           cause |-> "closed_empty"])
       ELSE lr' = Upd(lr, [pc |-> "done", out |-> "return", value |-> "None",
                           cause |-> "closed_after_data"])
    /\ UNCHANGED <<connVars, rx, pd, pb, bo, tm, mg>>

NextLegacy == LrCall \/ LrChunk \/ LrEnd

SpecLegacy == InitRecv /\ [][NextLegacy]_vars

\* ================================================================ claims
NoMarker == {"plain", "empty", "reset"}

WellFormed(t) == th[t].command_type # "" /\ th[t].params = "dict"

\* every open socket is held by a session
NoLeakedSocket == \A k \in Socks : sockets[k].st = "open" => \E s \in Sessions : sock[s] = k

\* C1: every reply a caller reads answers its own request, never the request
\* of another caller of the shared session (stated as claimed; SpecConc).
C1_NoCrossReply == \A t \in Threads : th[t].gotFrom \in {None, t}

\* C2: a socket handle a caller is about to use, or has written a command on,
\* has completed its handshake (stated as claimed; SpecConc).
C2_SocketImpliesHandshake ==
    /\ \A t \in Threads :
         th[t].pc \in {"s_lock", "s_send", "s_recv"} /\ Usable(sock[th[t].conn])
            => sockets[sock[th[t].conn]].hs = "done"
    /\ \A k \in Socks : sockets[k].st = "open" /\ sockets[k].hs = "pending" => sockets[k].wire = <<>>

\* C3: with framing mandatory, after a greeting without the marker (also an
\* empty greeting or a failed read) connect() has returned False, the session
\* holds no socket and the socket it opened is closed.
C3_RejectedGreetingLeavesNoSocket ==
    \A t \in Threads :
        (require_framing /\ th[t].greeting \in NoMarker /\ th[t].pc # "c_fin")
           => /\ th[t].pc \in {"idle", "g_after", "h_close"}
              /\ th[t].pc \in {"idle", "g_after"} => ~th[t].ret
              /\ sock[th[t].conn] = None
              /\ NoLeakedSocket

C3_Witness ==
    \E t \in Threads :
        /\ require_framing /\ th[t].greeting = "plain"
        /\ th[t].op = "connect" /\ th[t].pc = "idle" /\ th[t].out = "return"
        /\ ~th[t].ret /\ sock[th[t].conn] = None

Rejecting(t) ==
    /\ require_framing /\ th[t].greeting \in {"plain", "empty"}
    /\ th[t].pc = "c_fin" /\ sock[th[t].conn] # None

\* C4 as claimed: when the greeting is rejected the client has written nothing
\* at all on that connection.
C4_NoClientWrite ==
    \A t \in Threads :
        Rejecting(t) => ~sockets[sock[th[t].conn]].adv /\ sockets[sock[th[t].conn]].wire = <<>>

\* C4 as amended: when the greeting is rejected the client has written the
\* one advisory line and no command bytes, and the handshake is not complete.
C4_OnlyAdvisoryWritten ==
    \A t \in Threads :
        Rejecting(t) => /\ sockets[sock[th[t].conn]].adv
                        /\ sockets[sock[th[t].conn]].wire = <<>>
                        /\ sockets[sock[th[t].conn]].hs = "pending"
                        /\ ~th[t].hs_ok

C4_Witness ==
    \E t \in Threads : Rejecting(t) /\ th[t].greeting = "plain" /\ sockets[sock[th[t].conn]].adv

C6_ReloadRetriesAtHintedInterval ==
    \A t \in Threads :
        th[t].op = "swr"
           => /\ th[t].retries <= th[t].max_retries
              /\ (th[t].pc = "s_guard" /\ th[t].retries > 0)
                    => th[t].delay_ms = IF th[t].response.hint # NoHint
                                        THEN th[t].response.hint ELSE reload_retry_ms
              /\ (th[t].pc = "idle" /\ th[t].out = "return" /\ th[t].response.state = "reloading")
                    => /\ th[t].retries = th[t].max_retries
                       /\ th[t].response.tag \in {"result", "dict"}
                       /\ th[t].clean => th[t].sends = th[t].max_retries + 1

C6_Witness ==
    \E t \in Threads :
        /\ th[t].op = "swr" /\ th[t].pc = "idle" /\ th[t].out = "return"
        /\ th[t].response.state = "reloading" /\ th[t].response.tag = "result"
        /\ th[t].response.hint = 100
        /\ th[t].max_retries > 1 /\ th[t].retries = th[t].max_retries
        /\ th[t].clean /\ th[t].sends = th[t].max_retries + 1

\* C7: a reply with error status, or a ping reply of the wrong shape, never
\* makes send_command close the socket (stated as claimed).
C7_ErrorReplyNotRetried ==
    \A t \in Threads :
        th[t].exc.tag \in {"UnityError", "PingUnsuccessful"} => th[t].pc \notin {"h_clear", "h_port"}

InSend(r) ==
    \/ r.pc \in {"s_try", "s_lock", "s_send", "s_recv", "h_close", "h_clear", "h_port"}
    \/ r.pc \in {"c_fast", "c_lock", "c_check", "c_hs", "c_fin"} /\ r.from = "send"

PcRank(pc) ==
    CASE pc = "s_try" -> 12 [] pc = "c_fast" -> 11 [] pc = "c_lock" -> 10 [] pc = "c_check" -> 9
      [] pc = "c_hs" -> 8 [] pc = "c_fin" -> 7 [] pc = "s_lock" -> 6 [] pc = "s_send" -> 5
      [] pc = "s_recv" -> 4 [] pc = "h_close" -> 3 [] pc = "h_clear" -> 2 [] pc = "h_port" -> 1
      [] OTHER -> 0

AttemptCeiling == IF config_max_retries > 5 THEN config_max_retries ELSE 5

Rank(r) == (AttemptCeiling - r.attempt) * 13 + PcRank(r.pc)

C10_MisuseDoesNoIO ==
    \A t \in Threads :
        (th[t].op \in {"send", "swr"} /\ ~WellFormed(t)) => th[t].io = {}

RxReturned == rx.pc = "done" /\ rx.out = "return"

\* C11 as claimed: an empty payload is never returned while the peer has a
\* non-empty frame to follow.
C11_NeverEmptyBeforeData == ~(RxReturned /\ rx.payload = <<>> /\ rx.tail.msgs # <<>>)

\* C11 as amended: a payload that is returned non-empty is the first non-empty
\* frame, reached after skipping all the zero-length frames before it, fewer
\* than max_heartbeat_frames of them; an empty return happens only at the
\* 16th consecutive zero-length frame or at one read after the deadline; and
\* below that limit and before the deadline the first non-empty frame is
\* what the call returns.
C11_HeartbeatsSkippedBelowLimit ==
    /\ (RxReturned /\ rx.payload # <<>>)
          => /\ rx.tail.msgs # <<>> /\ rx.payload = rx.tail.msgs[1]
             /\ rx.heartbeat_count = rx.hb
             /\ rx.hb < max_heartbeat_frames
    /\ (RxReturned /\ rx.payload = <<>>)
          => /\ rx.heartbeat_count \in 1..rx.hb
             /\ rx.heartbeat_count = max_heartbeat_frames \/ rx.late
    /\ (rx.pc = "done" /\ rx.hb < max_heartbeat_frames /\ ~rx.late /\ rx.tail.msgs # <<>>)
          => RxReturned /\ rx.payload = rx.tail.msgs[1]

C11_Witness ==
    /\ RxReturned /\ rx.payload = <<123>>
    /\ rx.hb = max_heartbeat_frames - 1 /\ rx.heartbeat_count = rx.hb

C13_FrameReturnedExactly ==
    (rx.pc # "idle" /\ rx.hb = 0 /\ rx.tail.msgs # <<>>)
       => LET frame == 8 + Len(rx.tail.msgs[1])
              after == SubSeq(rx.tail.bytes, frame + 1, Len(rx.tail.bytes)) IN
            /\ Len(rx.stream) >= Len(after)
            /\ rx.pc = "done" => /\ RxReturned
                                 /\ rx.payload = rx.tail.msgs[1]
                                 /\ rx.stream = after

C13_Witness ==
    /\ RxReturned /\ rx.hb = 0
    /\ rx.payload = <<123, 125>> /\ rx.stream = Frame(<<91>>)

\* C14: after receive_full_response has raised on a header above FRAMED_MAX,
\* no other caller has a command written on that socket (stated as claimed;
\* SpecConc).
C14_NoCommandAfterInvalidFrame ==
    \A t1, t2 \in Threads :
        (t1 # t2 /\ th[t1].pc = "h_close" /\ th[t1].exc.tag = "InvalidFrame"
               /\ th[t2].conn = th[t1].conn)
           => ~(th[t2].pc = "s_recv" /\ Usable(sock[th[t2].conn]))

GotSession(t) == th[t].op = "get" /\ th[t].pc = "idle" /\ th[t].out = "return"

\* C15: all callers that have returned normally from get_unity_connection
\* hold the same Session (the last part of the claim, stated as claimed;
\* SpecMgr).
C15_SameSessionForAll ==
    \A t1, t2 \in Threads : GotSession(t1) /\ GotSession(t2) => th[t1].conn = th[t2].conn

C17_FailedCreationClearedAndRedone ==
    [][\A t \in Threads :
         th[t].op = "get" =>
           /\ (th[t].pc = "g_after" /\ ~th[t].ret /\ th'[t] # th[t])
                 => /\ unity_connection' = None
                    /\ th'[t].pc = "idle" /\ th'[t].out = "raise"
                    /\ th'[t].response.tag = "ConnectionError"
           /\ (th[t].pc = "g_check" /\ unity_connection = None /\ th'[t].pc = "c_fast")
                 => /\ unity_connection' = nextSession /\ nextSession' = nextSession + 1
                    /\ th'[t].conn = nextSession
                    /\ "probe" \in th'[t].io
                    /\ port'[nextSession] # None /\ sock[nextSession] = None
           /\ (th[t].pc = "c_fast" /\ th'[t] # th[t]) => th'[t].pc = "c_lock"
           /\ (GotSession(t) /\ ~th[t].reused)
                 => /\ unity_connection = th[t].conn
                    /\ Usable(sock[th[t].conn]) /\ sockets[sock[th[t].conn]].hs = "done"]_vars

C17_Witness ==
    \E t \in Threads :
        /\ GotSession(t) /\ ~th[t].reused /\ th[t].conn = 2
        /\ unity_connection = 2 /\ Usable(sock[2]) /\ sock[1] = None

PdDone == pd.pc = "done"

StatusPortDead ==
    pd.pc # "idle" /\ pd.status.kind = "port" /\ pd.status.port \notin pd.live

\* positions, in the order of the scan, of the files with a valid port, and of
\* those whose port answers the probe
ValidAt == {i \in 1..Len(pd.candidates) : pd.candidates[i].ok}

LiveAt == {i \in ValidAt : pd.candidates[i].port \in pd.live}

Lowest(S) == CHOOSE i \in S : \A j \in S : i <= j

\* what the registry scan and the default port alone decide
ScanDecides ==
    IF LiveAt # {} THEN pd.candidates[Lowest(LiveAt)].port
    ELSE IF ValidAt # {} THEN pd.candidates[Lowest(ValidAt)].port
    ELSE DEFAULT_PORT

\* C18 as claimed: a status port that fails the probe is returned only if a
\* registry file names it too.
C18_StatusPortOnlyFromRegistry ==
    (PdDone /\ StatusPortDead /\ pd.result = pd.status.port)
       => \E i \in ValidAt : pd.candidates[i].port = pd.status.port

\* C18 as amended: when the status port fails the probe the call does not
\* return from the status step; the registry scan and the default port decide
\* the result, so the status port is returned only if a registry file names
\* it or it is the default port.
C18_DeadStatusPortFallsThrough ==
    (StatusPortDead /\ pd.pc # "status")
       => /\ pd.via # "status"
          /\ pd.probed[1] = pd.status.port
          /\ PdDone => /\ pd.result = ScanDecides
                       /\ pd.result = pd.status.port
                             => \/ \E i \in ValidAt : pd.candidates[i].port = pd.status.port
                                \/ pd.status.port = DEFAULT_PORT

C18_Witness ==
    /\ PdDone /\ StatusPortDead
    /\ pd.via = "registry" /\ pd.result # pd.status.port

AllFiles == {pd.files[i] : i \in 1..Len(pd.files)} \cup {pd.legacy[i] : i \in 1..Len(pd.legacy)}

ReadFiles == {pd.read[i] : i \in 1..Len(pd.read)}

\* the files opened are taken newest first with the legacy file last, and no
\* file is passed over for an older one
ReadNewestFirstLegacyLast ==
    /\ ReadFiles \subseteq AllFiles
    /\ \A i, j \in 1..Len(pd.read) :
         i < j => /\ ~pd.read[i].legacy
                  /\ pd.read[i].name # pd.read[j].name
                  /\ ~pd.read[j].legacy => pd.read[i].mtime >= pd.read[j].mtime
    /\ \A f \in AllFiles \ ReadFiles, g \in ReadFiles :
         \/ f.legacy
         \/ ~g.legacy /\ g.mtime >= f.mtime

\* C19: when the status step yields no live port and some registry file names
\* a live port, the files are opened newest first with the legacy file last up
\* to the first one whose port answers the probe; that port is the result,
\* every valid port met on the way was probed once, in order, and no file
\* behind it is opened or probed.
C19_FirstLiveRegistryPortWins ==
    (PdDone /\ pd.via # "status" /\ \E f \in AllFiles : f.ok /\ f.port \in pd.live)
       => LET n == Len(pd.read)
              valid == SelectSeq(pd.read, LAMBDA f : f.ok)
              own == IF pd.status.kind = "port" THEN 1 ELSE 0 IN
            /\ pd.via = "registry"
            /\ n >= 1 /\ pd.read[n].ok /\ pd.read[n].port \in pd.live
            /\ pd.result = pd.read[n].port
            /\ \A i \in 1..(n - 1) : ~(pd.read[i].ok /\ pd.read[i].port \in pd.live)
            /\ ReadNewestFirstLegacyLast
            /\ Len(pd.probed) = own + Len(valid)
            /\ \A i \in 1..Len(valid) : pd.probed[own + i] = valid[i].port

C19_Witness ==
    /\ PdDone /\ pd.via = "registry"
    /\ Len(pd.read) = 2 /\ pd.read[1].ok /\ pd.read[1].port \notin pd.live
    /\ pd.read[1].mtime > pd.read[2].mtime
    /\ Len(pd.legacy) = 1 /\ pd.legacy[1] \notin ReadFiles

\* C20: when no probe succeeds the result is the first valid port of the scan
\* order, whatever the later files and the status file name, and the default
\* port only when no file has a valid port; with no status file, a legacy
\* file naming 6400 and no listener the result is 6400, as the first port seen.
C20_FirstSeenPortThenDefault ==
    (PdDone /\ pd.via \notin {"status", "registry"})
       => /\ LiveAt = {}
          /\ Len(pd.read) = Len(pd.candidates)
          /\ IF ValidAt # {}
             THEN pd.via = "first_seen" /\ pd.result = pd.candidates[Lowest(ValidAt)].port
             ELSE pd.via = "default" /\ pd.result = DEFAULT_PORT
          /\ (pd.status.kind = "none" /\ pd.files = <<>>
                 /\ \E m \in {1, MaxMtime + 1} :
                       pd.legacy = <<Legacy(m, [ok |-> TRUE, port |-> 6400, gone |-> FALSE])>>)
                => pd.result = 6400 /\ pd.via = "first_seen"

C20_Witness ==
    /\ PdDone /\ pd.via = "first_seen" /\ StatusPortDead
    /\ Len(pd.read) = 3 /\ pd.read[1].ok /\ pd.read[3].ok
    /\ pd.result = pd.read[1].port
    /\ pd.result # pd.read[3].port /\ pd.result # pd.status.port /\ pd.result # DEFAULT_PORT

Listed == pd.pc = "scan" \/ (PdDone /\ pd.via # "status")

\* C21: list_candidate_files returns every per-project file once, newest
\* first, followed by the legacy file as the last element whenever it exists,
\* whatever its modification time; the legacy file appears exactly once.
C21_HashedNewestFirstLegacyLast ==
    Listed =>
       LET c == pd.candidates
           n == Len(pd.files) IN
         /\ Len(c) = n + Len(pd.legacy)
         /\ \A i \in 1..n : \E j \in 1..n : c[j] = pd.files[i]
         /\ \A i, j \in 1..n : i < j => c[i].mtime >= c[j].mtime
         /\ pd.legacy # <<>> => /\ c[Len(c)] = pd.legacy[1]
                                /\ Cardinality({i \in 1..Len(c) : c[i].legacy}) = 1
         /\ pd.legacy = <<>> => \A i \in 1..Len(c) : ~c[i].legacy

C21_Witness ==
    /\ pd.pc = "scan"
    /\ Len(pd.files) = 2 /\ pd.files[1].mtime < pd.files[2].mtime
    /\ pd.legacy # <<>> /\ pd.legacy[1].mtime > pd.files[2].mtime
    /\ pd.candidates = <<pd.files[2], pd.files[1], pd.legacy[1]>>

C23_DiscoveryNeverRaises == pd.pc # "raised"

\* C25: the probe returns true only if the connection was opened, the ping
\* was sent and the bytes read contain the acknowledgment; a failure to
\* connect, send or receive, or a reply without the acknowledgment, returns
\* false; and whenever the probe has returned its socket is closed.
C25_ProbeTrueOnlyOnAckSocketClosed ==
    pb.pc = "done" =>
       /\ ~pb.open
       /\ pb.result =>
            /\ pb.connected /\ pb.sent /\ pb.fail = "none"
            /\ \E i \in 1..Len(pb.data) : \A j \in 1..Len(Ack) :
                  i + j - 1 <= Len(pb.data) /\ pb.data[i + j - 1] = Ack[j]
            /\ Len(pb.data) <= ProbeRecvSize
       /\ pb.fail # "none" => ~pb.result
       /\ pb.stream \in {<<>>, <<87, 69, 76, 67, 79, 77, 69, 10>>} => ~pb.result

C25_Witness ==
    /\ pb.pc = "done" /\ pb.result /\ ~pb.open
    /\ Len(pb.stream) = ProbeRecvSize /\ pb.data = pb.stream

\* C24: async_send_command_with_retry never raises to its caller: whatever
\* fails underneath it (no running event loop, an empty command type, a
\* failure to resolve the port or to connect, transport retries exhausted),
\* the call returns the structured failure of its except clause.
C24_AsyncNeverRaises ==
    \A t \in Threads :
        th[t].op = "async" =>
           /\ th[t].out # "raise"
           /\ (th[t].pc = "idle" /\ th[t].exc # NoVal) =>
                 th[t].out = "return" /\ th[t].response = HelperFailed

C24_Witness ==
    \E t \in Threads :
        /\ th[t].op = "async" /\ th[t].pc = "idle" /\ th[t].out = "return"
        /\ th[t].response = HelperFailed
        /\ th[t].exc.tag = "Timeout" /\ th[t].exc.att = Attempts(config_max_retries)

\* C26: a step of connect() on a Session that has a socket returns True at
\* once: no network I/O, no handshake, and port, socket handle, framing mode
\* and the sockets themselves are left as they were.
C26_ConnectOnConnectedIsNoOp ==
    [][\A t \in Threads :
         (th[t].op = "connect" /\ th[t].pc \in {"c_fast", "c_check"}
               /\ sock[th[t].conn] # None /\ th'[t] # th[t])
            => /\ th'[t].pc = "idle" /\ th'[t].out = "return" /\ th'[t].ret
               /\ th'[t].io = {} /\ th'[t].greeting = "none"
               /\ UNCHANGED <<port, sock, use_framing, io_lock, sockets, managerVars>>]_vars

C26_Witness ==
    \E t \in Threads :
        /\ th[t].op = "connect" /\ th[t].pc = "idle" /\ th[t].out = "return" /\ th[t].ret
        /\ th[t].io = {} /\ th[t].greeting = "none"
        /\ Usable(sock[th[t].conn]) /\ use_framing[th[t].conn]
        /\ sockets[sock[th[t].conn]].hs = "done"

InFlight(t) == th[t].pc = "s_recv" /\ th[t].wsock # None

\* C27: while a caller has a command in flight on a socket, no step of
\* another caller writes to or reads from that socket (stated as claimed;
\* SpecConc).
C27_NoOtherTrafficWhileInFlight ==
    [][\A t, u \in Threads :
         (t # u /\ InFlight(t) /\ th'[u] # th[u])
            => ~(/\ th[u].pc \in {"c_hs", "s_send", "s_recv"}
                 /\ sock[th[u].conn] = th[t].wsock
                 /\ sockets[th[t].wsock].st = "open")]_vars

\* C28: while a caller has a command in flight on a socket, the socket stays
\* open and stays the handle of the Session (stated as claimed; SpecConc).
C28_NoTeardownWhileInFlight ==
    \A t \in Threads :
        InFlight(t) => sockets[th[t].wsock].st = "open" /\ sock[th[t].conn] = th[t].wsock

\* C29: the empty response that ends a framed receive after heartbeat frames
\* only is returned to the caller and never becomes the exception of a failed
\* attempt (stated as claimed).
C29_EmptyResponseIsNoFailure ==
    \A t \in Threads : th[t].exc.tag # "JSONDecodeError on b''"

\* C30: send_command_with_retry sends the command again only after a reply
\* tagged state "reloading" (stated as claimed).
C30_ResendOnlyAfterReloadingState ==
    [][\A t \in Threads :
         (th[t].pc = "w_loop" /\ th'[t].pc = "s_guard")
            => th[t].response.state = "reloading"]_vars

\* send_command_with_retry has raised what the last attempt of send_command raised
Exhausted(t) ==
    /\ th[t].op = "swr" /\ th[t].pc = "idle" /\ th[t].out = "raise"
    /\ th[t].conn # None /\ th[t].response.att = Attempts(config_max_retries)

\* C36 as claimed: once send_command has raised after its last attempt, the
\* stored reference to that Session is discarded.
C36_FailedSessionIsDiscarded ==
    \A t \in Threads : Exhausted(t) => unity_connection # th[t].conn

\* C36 as amended: once send_command has raised after its last attempt, the
\* Session stays stored, with its socket closed and its handle cleared; a call
\* of send_command_with_retry that finds a Session stored uses that Session.
C36_FailedSessionIsKept ==
    \A t \in Threads :
         /\ Exhausted(t)
              => /\ unity_connection = th[t].conn
                 /\ sock[th[t].conn] = None
                 /\ NoLeakedSocket
         /\ (th[t].op = "swr" /\ th[t].reused) => th[t].conn = unity_connection

C36_Witness ==
    \E t \in Threads :
        /\ Exhausted(t) /\ th[t].reused
        /\ unity_connection = th[t].conn /\ sock[th[t].conn] = None
        /\ "probe" \in th[t].io

\* C38: the stored reference is empty or a Session whose connect() has
\* returned True (stated as claimed; SpecMgr).
C38_StoredSessionIsConnected ==
    unity_connection # None
       => /\ sock[unity_connection] # None
          /\ sockets[sock[unity_connection]].hs = "done"

\* a reply of the peer has been returned by send_command_with_retry
ReplyReturned(t) ==
    /\ th[t].op = "swr" /\ th[t].pc = "idle" /\ th[t].out = "return"
    /\ th[t].response.tag \in {"result", "pong"}

C34_ProbeAcceptsHandshakingPeer ==
    (pb.pc = "done" /\ pb.peer = "strict" /\ pb.connected /\ pb.sent) => pb.result

\* the handler of send_command has slept and the next attempt is due
BoSlept == bo.pc = "try" /\ bo.slept

\* C32 as claimed: the sleep after failed attempt k is min(cap, jitter * 2^k)
\* with the jitter between 0.1 s and 0.3 s, where the cap is 0.25 s whenever
\* the failure is fast, 0.8 s when it is not fast and the status file says
\* reloading, and 3 s otherwise.
C32_FastCapFirst ==
    BoSlept =>
       LET cap == IF bo.fast_error THEN FastCap
                  ELSE IF bo.reloading THEN ReloadCap ELSE SlowCap IN
         /\ bo.jitter >= JitterMin /\ bo.jitter <= JitterMax
         /\ bo.sleep = Smaller(cap, bo.jitter * Pow2(bo.failed))
         /\ bo.sleep <= cap

\* C32 as amended: the sleep after failed attempt k (counted from 0) is
\* min(cap, jitter * 2^k) with the jitter between 0.1 s and 0.3 s, where the
\* cap is 0.8 s whenever the status file says reloading, else 0.25 s when the
\* exception is a fast one, else 3 s; the sleep never exceeds that cap, and it
\* is positive.
C32_ReloadCapFirst ==
    BoSlept =>
       LET cap == IF bo.reloading THEN ReloadCap
                  ELSE IF bo.fast_error THEN FastCap ELSE SlowCap IN
         /\ bo.jitter >= JitterMin /\ bo.jitter <= JitterMax
         /\ bo.fast_error = (bo.exc \in {"ConnectionRefusedError", "ConnectionResetError",
                                        "TimeoutError"})
         /\ bo.cap = cap
         /\ bo.sleep = Smaller(cap, bo.jitter * Pow2(bo.failed))
         /\ bo.sleep <= cap /\ bo.sleep > 0
         /\ bo.failed < bo.attempts /\ bo.attempt = bo.failed + 1

C32_Witness ==
    /\ BoSlept /\ bo.reloading /\ bo.fast_error
    /\ bo.origin = "recv_timeout" /\ bo.failed = 2
    /\ bo.jitter = JitterMax /\ bo.sleep = ReloadCap

\* C33: a connection-refused or connection-reset failure inside the connect
\* of send_command is classified as fast, and the sleep after it is capped by
\* the short cap where the status file does not say reloading (stated as
\* claimed; SpecBackoff).
C33_ConnectFailureIsFast ==
    (BoSlept /\ bo.origin \in {"connect_refused", "connect_reset"})
       => /\ bo.fast_error
          /\ ~bo.reloading => bo.cap = FastCap

\* C39: with telemetry enabled every call of record_milestone returns: no
\* caller waits for the lock of the collector for ever (stated as claimed;
\* SpecTelemetry, with fairness for every thread and for the lock).
C39_RecordMilestoneReturns ==
    \A t \in Threads :
        (tm.pc = "run" /\ tm.enabled /\ tm.c[t].pc \in {"acquire", "locked"})
           ~> (tm.pc = "run" /\ tm.c[t].pc = "done")

\* C37: in the main module get_unity_connection returns a connection, stored
\* or new, only after a ping round trip with the peer has succeeded on it
\* during the call (stated as claimed; SpecMain).
C37_ReturnedOnlyAfterPing ==
    (mg.pc = "ready" /\ mg.op = "get" /\ mg.out = "return")
       => mg.pinged /\ mg.sock = "open"

\* the bytes received so far by the legacy receive
LrData == SubSeq(lr.stream, 1, lr.have)

\* C35: in legacy mode receive_full_response returns the accumulated bytes
\* when they are a complete JSON document, when they are the pong, and when
\* the peer closes after at least one byte; it raises only when the peer
\* closes before any byte or the receive times out; it does not go on
\* reading with a complete document in hand (stated as claimed; SpecLegacy).
C35_LegacyReturnsAccumulatedBytes ==
    /\ lr.pc = "recv" => ~(lr.have > 0 /\ Utf8Valid(LrData, 1) /\ JsonLoads(LrData))
    /\ lr.pc = "done" =>
         /\ lr.cause \in {"json", "pong", "closed_after_data"}
               => lr.out = "return" /\ lr.value = "data"
         /\ lr.out = "raise" => lr.cause \in {"closed_empty", "timeout"}
====
